---- MODULE Spec2Model ----
(***************************************************************************)
(* Request Broker (src/src/mcp-server.ts, McpFeedbackServer) and Discovery *)
(* Poller (src/src/extension.ts, FeedbackViewProvider) of the              *)
(* cursor-feedback extension, as one state machine.                        *)
(*                                                                         *)
(* Each Broker is a single-threaded Node process: a macrotask (a tool      *)
(* call, an HTTP request, a timer) runs to completion, then the promise    *)
(* continuations it queued (microtasks) run before the next macrotask.     *)
(* Time is in milliseconds, as in the code.                                *)
(***************************************************************************)
EXTENDS Integers, Sequences, FiniteSets, TLC

\* ---------------------------------------------------------------- bounds
MaxCalls == 2
PollCalls == 2
RaceCalls == 1
MaxTicks == 1
MaxImages == 2
RetryCalls == 1
IdleCalls == 1
IdleTicks == 4
BindCalls == 1
RangeCalls == 1
FreshCalls == 1
FreshTicks == 2
SeenCalls == 101
TimeoutCalls == 1
LoopScans == 2

\* ------------------------------------------------------ program constants
BasePort == 61927
PortScanRange == 20
DefaultTimeout == 300
SeenLimit == 100
SeenKeep == 50
FreshMs == 10000
TickMs == 1000

\* Two Broker processes and two editor windows; Broker b listens on BasePort + b - 1.
Brokers == {1, 2, 3}
Pollers == {1, 2}

\* ------------------------------------------------------------- strings
\* A path or file name is a sequence of one-character strings.
Upper == [c \in {"A", "B", "G", "I", "F", "J", "P", "N", "E", "W"} |->
            CASE c = "A" -> "a" [] c = "B" -> "b" [] c = "G" -> "g"
              [] c = "I" -> "i" [] c = "F" -> "f" [] c = "J" -> "j"
              [] c = "P" -> "p" [] c = "N" -> "n" [] c = "E" -> "e"
              [] c = "W" -> "w"]

\* String.prototype.toLowerCase
ToLowerCase(s) == [i \in 1..Len(s) |-> IF s[i] \in DOMAIN Upper THEN Upper[s[i]] ELSE s[i]]

\* p.replace(/\\/g, '/')
ReplaceBackslashes(s) == [i \in 1..Len(s) |-> IF s[i] = "\\" THEN "/" ELSE s[i]]

\* p.replace(/\/+$/, '')
RECURSIVE StripTrailingSlashes(_)
StripTrailingSlashes(s) ==
  IF Len(s) > 0 /\ s[Len(s)] = "/" THEN StripTrailingSlashes(SubSeq(s, 1, Len(s) - 1)) ELSE s

\* const normalize = (p) => p.replace(/\\/g, '/').replace(/\/+$/, '').toLowerCase()
normalize(p) == ToLowerCase(StripTrailingSlashes(ReplaceBackslashes(p)))

\* ---------------------------------------------------------------- inputs
PathA == <<"/", "a">>
PathAWin == <<"\\", "A", "\\">>
PathAB == <<"/", "a", "/", "b">>
PathB == <<"/", "b">>
PathDot == <<".">>
PathRoot == <<"/">>

\* args.timeout: not supplied, or a number of seconds
NoArg == [supplied |-> FALSE, value |-> 0]
Arg(n) == [supplied |-> TRUE, value |-> n]
ArgTimeouts == {NoArg, Arg(1)}

ImgPng == <<"a", ".", "P", "N", "G">>
ImgJpeg == <<"a", ".", "b", ".", "j", "p", "e", "g">>

\* FeedbackResponse (mcp-server.ts 49-58); isNull: the body carried no feedback object,
\* malformed: interactive_feedback is not a string
FbNull == [isNull |-> TRUE, malformed |-> FALSE, interactive_feedback |-> "", images |-> <<>>, attachedFiles |-> <<>>]
FbBad == [isNull |-> FALSE, malformed |-> TRUE, interactive_feedback |-> "", images |-> <<>>, attachedFiles |-> <<>>]
FbText(t) == [isNull |-> FALSE, malformed |-> FALSE, interactive_feedback |-> t, images |-> <<>>, attachedFiles |-> <<>>]
FbFull == [isNull |-> FALSE, malformed |-> FALSE, interactive_feedback |-> "see", images |-> <<ImgPng, ImgJpeg>>, attachedFiles |-> <<PathA>>]

\* what the form of window p sends
PollerFeedbacks(p) == IF p = 1 THEN {FbText("one")} ELSE {FbFull}

\* what any other HTTP client may send as the feedback member
RawFeedbacks == {FbNull, FbBad, FbText("raw")}

\* FeedbackRequest (mcp-server.ts 38-44); id 0 is null
NoRequest == [id |-> 0, projectDir |-> <<>>, timeout |-> 0, timestamp |-> 0]

\* One interactive_feedback call. pc: "waiting" (suspended on its promise), "resolved" (the
\* promise is settled, the continuation queued), "returned". resolves counts the calls of
\* the promise's resolve function, by names the path that settled it, accepted lists the
\* feedback of every submit for this request that was answered 200.
NoCall == [broker |-> 0, pc |-> "none", valid |-> FALSE, deadline |-> 0, resolves |-> 0,
           by |-> "none", result |-> FbNull, accepted |-> <<>>, content |-> <<>>,
           isError |-> FALSE]

VARIABLES
  now,              \* Date.now(), ms
  ticks,            \* how many times the clock advanced
  proc,             \* Broker process: "down" (not started), "binding" (listen failed, retry due), "up", "closing" (stop() ran, exit timer armed), "exited"
  env,              \* process.env of each Broker
  port,             \* McpFeedbackServer.port: the port listened on, or the candidate while binding
  occupied,         \* the ports of 127.0.0.1 that other programs of the machine listen on
  startTime,        \* McpFeedbackServer.startTime
  currentRequest,   \* McpFeedbackServer.currentRequest
  ownerWorkspace,   \* McpFeedbackServer.ownerWorkspace; <<"null">> is null
  pendingRequests,  \* keys of McpFeedbackServer.pendingRequests
  timers,           \* request ids whose setTimeout is armed
  microtasks,       \* promise continuations queued on each Broker: ids of calls to resume
  shutdownTimer,    \* the 100 ms setTimeout of POST /api/shutdown is armed
  calls,            \* every interactive_feedback call made so far, by id
  nextId,           \* the next call / request id
  lastHttp,         \* the last submit of another HTTP client: its request id and the status answered
  workspaceFolders, \* vscode.workspace.workspaceFolders of each window, as fsPaths
  pollingInterval,  \* FeedbackViewProvider._pollingInterval is set
  intervals,        \* how many setInterval timers of each window are live
  pollerRequest,    \* FeedbackViewProvider._currentRequest
  activePort,       \* FeedbackViewProvider._activePort; 0 is null
  seenRequestIds,   \* FeedbackViewProvider._seenRequestIds, in insertion order
  latestServerStartTime, \* FeedbackViewProvider._latestServerStartTime
  scans,            \* the _pollForFeedbackRequest runs in flight of each window
  formRequestId,    \* currentRequestId of the webview script; 0 is ''
  submit,           \* the _handleFeedbackSubmit run in flight of each window
  attention,        \* how often each request id raised focus and a notification in each window
  displays,         \* how often _handleNewRequest displayed each request id in each window
  health            \* the _checkServerHealth run of each window and the serverStatus message last posted

pollerVars == <<workspaceFolders, pollingInterval, intervals, pollerRequest, activePort, seenRequestIds,
                latestServerStartTime, scans, formRequestId, submit, attention, displays,
                health>>

brokerVars == <<proc, env, port, occupied, startTime, currentRequest, ownerWorkspace, pendingRequests,
                timers, microtasks, shutdownTimer, calls, nextId, lastHttp>>

Null == <<"null">>

\* ---------------------------------------------------------- Broker helpers
\* filename.toLowerCase().split('.').pop()
RECURSIVE LastDot(_, _)
LastDot(s, i) == IF i = 0 THEN 0 ELSE IF s[i] = "." THEN i ELSE LastDot(s, i - 1)

Extension(filename) ==
  LET l == ToLowerCase(filename) IN SubSeq(l, LastDot(l, Len(l)) + 1, Len(l))

getMimeType(filename) ==
  LET ext == Extension(filename) IN
    CASE ext = <<"j", "p", "g">> -> "image/jpeg"
      [] ext = <<"j", "p", "e", "g">> -> "image/jpeg"
      [] ext = <<"p", "n", "g">> -> "image/png"
      [] ext = <<"g", "i", "f">> -> "image/gif"
      [] ext = <<"w", "e", "b", "p">> -> "image/webp"
      [] OTHER -> "image/png"

TextItem(t) == [type |-> "text", text |-> t, data |-> <<>>, mimeType |-> ""]
ImageItem(img) == [type |-> "image", text |-> <<>>, data |-> img, mimeType |-> getMimeType(img)]

\* parseInt(str, 10): leading blanks are skipped, a sign is read, then the longest run of
\* digits; no digit gives NaN
DigitValue == [c \in {"0", "1", "2", "3", "4", "5", "6", "7", "8", "9"} |->
                 CASE c = "0" -> 0 [] c = "1" -> 1 [] c = "2" -> 2 [] c = "3" -> 3
                   [] c = "4" -> 4 [] c = "5" -> 5 [] c = "6" -> 6 [] c = "7" -> 7
                   [] c = "8" -> 8 [] c = "9" -> 9]

RECURSIVE SkipBlanks(_)
SkipBlanks(s) == IF s # <<>> /\ Head(s) = " " THEN SkipBlanks(Tail(s)) ELSE s

RECURSIVE ParseDigits(_, _, _)
ParseDigits(s, acc, n) ==
  IF s # <<>> /\ Head(s) \in DOMAIN DigitValue
    THEN ParseDigits(Tail(s), acc * 10 + DigitValue[Head(s)], n + 1)
    ELSE [digits |-> n, value |-> acc]

parseInt(str) ==
  LET t == SkipBlanks(str)
      signed == t # <<>> /\ Head(t) \in {"-", "+"}
      d == ParseDigits(IF signed THEN Tail(t) ELSE t, 0, 0)
  IN [nan |-> d.digits = 0,
      value |-> IF signed /\ Head(t) = "-" THEN 0 - d.value ELSE d.value]

\* process.env.MCP_FEEDBACK_TIMEOUT ? parseInt(process.env.MCP_FEEDBACK_TIMEOUT, 10) : null
\* as a number, with nan for null and NaN alike (both are falsy)
EnvTimeout(raw) ==
  IF raw = Null \/ raw = <<>> THEN [nan |-> TRUE, value |-> 0] ELSE parseInt(raw)

\* envTimeout || args.timeout || 300, from the value of MCP_FEEDBACK_TIMEOUT (<<"null">>: not
\* set) and args.timeout
EffectiveTimeout(envTimeout, argTimeout) ==
  LET e == EnvTimeout(envTimeout) IN
    IF ~e.nan /\ e.value # 0 THEN e.value
    ELSE IF argTimeout.supplied /\ argTimeout.value # 0 THEN argTimeout.value
    ELSE DefaultTimeout

\* the null-result branch of handleInteractiveFeedback
TimeoutContent(autoRetry) ==
  IF autoRetry THEN <<TextItem(<<"User cancelled the feedback or timeout.", "retry hint">>)>>
  ELSE <<TextItem(<<"User cancelled the feedback or timeout.">>)>>

\* feedbackText of handleInteractiveFeedback, as the sequence of its parts
FeedbackText(result) ==
  (IF result.interactive_feedback # "" THEN <<"=== User Feedback ===", result.interactive_feedback>> ELSE <<>>)
  \o (IF Len(result.attachedFiles) > 0
        THEN <<"=== Attached Files ===">> \o result.attachedFiles \o <<"Please read the above files to understand the context.">>
        ELSE <<>>)

\* contentItems of handleInteractiveFeedback
ContentItems(result) ==
  LET text == FeedbackText(result)
      items == (IF text # <<>> THEN <<TextItem(text)>> ELSE <<>>)
               \o [i \in 1..Len(result.images) |-> ImageItem(result.images[i])]
  IN IF Len(items) = 0 THEN <<TextItem(<<"User did not provide any feedback.">>)>> ELSE items

\* what handleInteractiveFeedback returns once waitForFeedback has resolved with result
ReturnedContent(result, autoRetry) ==
  IF result.isNull THEN TimeoutContent(autoRetry)
  ELSE IF result.malformed THEN <<TextItem(<<"Error collecting feedback">>)>>
  ELSE ContentItems(result)

\* resolve(value) of the promise of call id: the first call settles the promise and queues
\* the continuation of handleInteractiveFeedback, a later one has no effect on the promise
ResolveCall(c, value, by) ==
  IF c.pc = "waiting"
    THEN [c EXCEPT !.pc = "resolved", !.result = value, !.by = by, !.resolves = @ + 1]
    ELSE [c EXCEPT !.resolves = @ + 1]

\* the function f with key k set to v
Put(f, k, v) == [x \in DOMAIN f \cup {k} |-> IF x = k THEN v ELSE f[x]]

RECURSIVE SetToSeq(_)
\* the ids of a set in ascending order: the insertion order of the pending map
SetToSeq(S) ==
  IF S = {} THEN <<>>
  ELSE LET m == CHOOSE x \in S : \A y \in S : x <= y IN <<m>> \o SetToSeq(S \ {m})

\* a macrotask of Broker b can start: the process serves and no continuation is queued
Idle(b) == proc[b] = "up" /\ microtasks[b] = <<>>

vars == <<now, ticks, brokerVars, pollerVars>>

\* ---------------------------------------------------------- Broker actions
\* no other process listens on the port
PortFree(b, candidate) ==
  /\ candidate \notin occupied
  /\ \A c \in Brokers \ {b} : proc[c] = "up" => port[c] # candidate

\* httpServer.listen(candidate): listening, or EADDRINUSE and the error handler is due
Listen(b, candidate) ==
  /\ port' = [port EXCEPT ![b] = candidate]
  /\ proc' = [proc EXCEPT ![b] = IF PortFree(b, candidate) THEN "up" ELSE "binding"]

\* StartBroker that first asks the Broker holding the port to shut down
StartBrokerEvicting(b, e) ==
  /\ proc[b] = "down"
  /\ Listen(b, BasePort)
  /\ env' = [env EXCEPT ![b] = e]
  /\ startTime' = [startTime EXCEPT ![b] = now]
  /\ shutdownTimer' = [c \in Brokers |->
       IF c # b /\ proc[c] = "up" /\ port[c] = BasePort THEN TRUE ELSE shutdownTimer[c]]
  /\ UNCHANGED <<now, ticks, occupied, currentRequest, ownerWorkspace, pendingRequests,
                 timers, microtasks, calls, nextId, lastHttp, pollerVars>>

\* main(): new McpFeedbackServer(port) and start(), up to the first listen()
StartBroker(b, e) ==
  /\ proc[b] = "down"
  /\ Listen(b, BasePort)
  /\ env' = [env EXCEPT ![b] = e]
  /\ startTime' = [startTime EXCEPT ![b] = now]
  /\ UNCHANGED <<now, ticks, occupied, currentRequest, ownerWorkspace, pendingRequests,
                 timers, microtasks, shutdownTimer, calls, nextId, lastHttp, pollerVars>>

\* the 'error' handler on EADDRINUSE: close, this.port++, startHttpServer() again
BindRetry(b) ==
  /\ proc[b] = "binding"
  /\ Listen(b, port[b] + 1)
  /\ UNCHANGED <<now, ticks, env, occupied, startTime, currentRequest, ownerWorkspace, pendingRequests,
                 timers, microtasks, shutdownTimer, calls, nextId, lastHttp, pollerVars>>

\* a listen() error other than EADDRINUSE: start() throws and main().catch exits
BindError(b) ==
  /\ proc[b] \in {"down", "binding"}
  /\ proc' = [proc EXCEPT ![b] = "exited"]
  /\ UNCHANGED <<now, ticks, env, port, occupied, startTime, currentRequest, ownerWorkspace,
                 pendingRequests, timers, microtasks, shutdownTimer, calls, nextId, lastHttp,
                 pollerVars>>

\* InvalidCall with the parameter check inside the try block: the finally empties the slot
InvalidCallInTry(b) ==
  /\ Idle(b)
  /\ calls' = Put(calls, nextId,
       [NoCall EXCEPT !.broker = b, !.pc = "returned", !.by = "validation", !.isError = TRUE,
                      !.content = <<TextItem(<<"missing project_directory">>)>>])
  /\ nextId' = nextId + 1
  /\ currentRequest' = [currentRequest EXCEPT ![b] = NoRequest]
  /\ UNCHANGED <<now, ticks, proc, env, port, occupied, startTime, ownerWorkspace,
                 pendingRequests, timers, microtasks, shutdownTimer, lastHttp, pollerVars>>

\* interactive_feedback without project_directory: the parameter check returns an error item
InvalidCall(b) ==
  /\ Idle(b)
  /\ calls' = Put(calls, nextId,
       [NoCall EXCEPT !.broker = b, !.pc = "returned", !.by = "validation", !.isError = TRUE,
                      !.content = <<TextItem(<<"missing project_directory">>)>>])
  /\ nextId' = nextId + 1
  /\ UNCHANGED <<now, ticks, proc, env, port, occupied, startTime, currentRequest, ownerWorkspace,
                 pendingRequests, timers, microtasks, shutdownTimer, lastHttp, pollerVars>>

\* InteractiveFeedback with a slot that is only filled when empty (first wins)
InteractiveFeedbackFirstWins(b, projectDir, argTimeout) ==
  LET timeout == EffectiveTimeout(env[b].timeout, argTimeout)
      requestId == nextId
  IN
  /\ Idle(b)
  /\ ownerWorkspace' = [ownerWorkspace EXCEPT ![b] = normalize(projectDir)]
  /\ currentRequest' = [currentRequest EXCEPT ![b] =
       IF @.id # 0 THEN @
       ELSE [id |-> requestId, projectDir |-> projectDir, timeout |-> timeout, timestamp |-> now]]
  /\ timers' = [timers EXCEPT ![b] = @ \cup {requestId}]
  /\ pendingRequests' = [pendingRequests EXCEPT ![b] = @ \cup {requestId}]
  /\ calls' = Put(calls, requestId,
       [NoCall EXCEPT !.broker = b, !.pc = "waiting", !.valid = TRUE,
                      !.deadline = now + timeout * 1000])
  /\ nextId' = nextId + 1
  /\ UNCHANGED <<now, ticks, proc, env, port, occupied, startTime, microtasks, shutdownTimer, lastHttp, pollerVars>>

\* InteractiveFeedback that sets ownerWorkspace only while it is null
InteractiveFeedbackOwnerOnce(b, projectDir, argTimeout) ==
  LET timeout == EffectiveTimeout(env[b].timeout, argTimeout)
      requestId == nextId
  IN
  /\ Idle(b)
  /\ ownerWorkspace' = [ownerWorkspace EXCEPT ![b] = IF @ = Null THEN normalize(projectDir) ELSE @]
  /\ currentRequest' = [currentRequest EXCEPT ![b] =
       [id |-> requestId, projectDir |-> projectDir, timeout |-> timeout, timestamp |-> now]]
  /\ timers' = [timers EXCEPT ![b] = @ \cup {requestId}]
  /\ pendingRequests' = [pendingRequests EXCEPT ![b] = @ \cup {requestId}]
  /\ calls' = Put(calls, requestId,
       [NoCall EXCEPT !.broker = b, !.pc = "waiting", !.valid = TRUE,
                      !.deadline = now + timeout * 1000])
  /\ nextId' = nextId + 1
  /\ UNCHANGED <<now, ticks, proc, env, port, occupied, startTime, microtasks, shutdownTimer, lastHttp, pollerVars>>

\* InteractiveFeedback that stores project_directory as given in ownerWorkspace
InteractiveFeedbackRawOwner(b, projectDir, argTimeout) ==
  LET timeout == EffectiveTimeout(env[b].timeout, argTimeout)
      requestId == nextId
  IN
  /\ Idle(b)
  /\ ownerWorkspace' = [ownerWorkspace EXCEPT ![b] = projectDir]
  /\ currentRequest' = [currentRequest EXCEPT ![b] =
       [id |-> requestId, projectDir |-> projectDir, timeout |-> timeout, timestamp |-> now]]
  /\ timers' = [timers EXCEPT ![b] = @ \cup {requestId}]
  /\ pendingRequests' = [pendingRequests EXCEPT ![b] = @ \cup {requestId}]
  /\ calls' = Put(calls, requestId,
       [NoCall EXCEPT !.broker = b, !.pc = "waiting", !.valid = TRUE,
                      !.deadline = now + timeout * 1000])
  /\ nextId' = nextId + 1
  /\ UNCHANGED <<now, ticks, proc, env, port, occupied, startTime, microtasks, shutdownTimer, lastHttp, pollerVars>>

\* interactive_feedback(project_directory, timeout) up to its await: the request is created
\* and waitForFeedback arms the timer and enters the call in the pending map
InteractiveFeedback(b, projectDir, argTimeout) ==
  LET timeout == EffectiveTimeout(env[b].timeout, argTimeout)
      requestId == nextId
  IN
  /\ Idle(b)
  /\ ownerWorkspace' = [ownerWorkspace EXCEPT ![b] = normalize(projectDir)]
  /\ currentRequest' = [currentRequest EXCEPT ![b] =
       [id |-> requestId, projectDir |-> projectDir, timeout |-> timeout, timestamp |-> now]]
  /\ timers' = [timers EXCEPT ![b] = @ \cup {requestId}]
  /\ pendingRequests' = [pendingRequests EXCEPT ![b] = @ \cup {requestId}]
  /\ calls' = Put(calls, requestId,
       [NoCall EXCEPT !.broker = b, !.pc = "waiting", !.valid = TRUE,
                      !.deadline = now + timeout * 1000])
  /\ nextId' = nextId + 1
  /\ UNCHANGED <<now, ticks, proc, env, port, occupied, startTime, microtasks, shutdownTimer, lastHttp, pollerVars>>

\* TimerFire without pendingRequests.delete(requestId)
TimerFireKeepsEntry(b, id) ==
  /\ Idle(b)
  /\ id \in timers[b]
  /\ now >= calls[id].deadline
  /\ timers' = [timers EXCEPT ![b] = @ \ {id}]
  /\ calls' = [calls EXCEPT ![id] = ResolveCall(@, FbNull, "timer")]
  /\ microtasks' = [microtasks EXCEPT ![b] = IF calls[id].pc = "waiting" THEN Append(@, id) ELSE @]
  /\ UNCHANGED <<now, ticks, proc, env, port, occupied, startTime, currentRequest, ownerWorkspace,
                 pendingRequests, shutdownTimer, nextId, lastHttp, pollerVars>>

\* the setTimeout callback of waitForFeedback
TimerFire(b, id) ==
  /\ Idle(b)
  /\ id \in timers[b]
  /\ now >= calls[id].deadline
  /\ timers' = [timers EXCEPT ![b] = @ \ {id}]
  /\ pendingRequests' = [pendingRequests EXCEPT ![b] = @ \ {id}]
  /\ calls' = [calls EXCEPT ![id] = ResolveCall(@, FbNull, "timer")]
  /\ microtasks' = [microtasks EXCEPT ![b] = IF calls[id].pc = "waiting" THEN Append(@, id) ELSE @]
  /\ UNCHANGED <<now, ticks, proc, env, port, occupied, startTime, currentRequest, ownerWorkspace,
                 shutdownTimer, nextId, lastHttp, pollerVars>>

\* Resume of a Broker whose retry hint also keeps the request of a timed-out call in the slot
ResumeRetryKeepsRequest(b) ==
  /\ proc[b] \in {"up", "closing"}
  /\ microtasks[b] # <<>>
  /\ LET id == Head(microtasks[b]) IN
       /\ calls' = [calls EXCEPT ![id] =
            [@ EXCEPT !.pc = "returned",
                      !.content = ReturnedContent(calls[id].result, env[b].autoRetry)]]
       /\ currentRequest' = [currentRequest EXCEPT ![b] =
            IF env[b].autoRetry /\ calls[id].result.isNull THEN @ ELSE NoRequest]
  /\ microtasks' = [microtasks EXCEPT ![b] = Tail(@)]
  /\ UNCHANGED <<now, ticks, proc, env, port, occupied, startTime, ownerWorkspace, pendingRequests, timers,
                 shutdownTimer, nextId, lastHttp, pollerVars>>

\* Resume without the finally block
ResumeNoFinally(b) ==
  /\ proc[b] \in {"up", "closing"}
  /\ microtasks[b] # <<>>
  /\ LET id == Head(microtasks[b]) IN
       calls' = [calls EXCEPT ![id] =
         [@ EXCEPT !.pc = "returned",
                   !.content = ReturnedContent(calls[id].result, env[b].autoRetry)]]
  /\ microtasks' = [microtasks EXCEPT ![b] = Tail(@)]
  /\ UNCHANGED <<now, ticks, proc, env, port, occupied, startTime, currentRequest, ownerWorkspace,
                 pendingRequests, timers, shutdownTimer, nextId, lastHttp, pollerVars>>

\* the continuation of handleInteractiveFeedback after its await: the content is built and
\* returned, and the finally block empties the request slot
Resume(b) ==
  /\ proc[b] \in {"up", "closing"}
  /\ microtasks[b] # <<>>
  /\ LET id == Head(microtasks[b]) IN
       calls' = [calls EXCEPT ![id] =
         [@ EXCEPT !.pc = "returned",
                   !.content = ReturnedContent(calls[id].result, env[b].autoRetry)]]
  /\ currentRequest' = [currentRequest EXCEPT ![b] = NoRequest]
  /\ microtasks' = [microtasks EXCEPT ![b] = Tail(@)]
  /\ UNCHANGED <<now, ticks, proc, env, port, occupied, startTime, ownerWorkspace, pendingRequests, timers,
                 shutdownTimer, nextId, lastHttp, pollerVars>>

\* the 'end' callback of POST /api/feedback/submit for a well-formed body: the answer it
\* gives to {requestId, feedback}
SubmitStatus(b, requestId) == IF requestId \in pendingRequests[b] THEN 200 ELSE 404

\* SubmitEffect that, for an id it does not know, answers the request in the slot instead
SubmitEffectCurrent(b, requestId, feedback) ==
  LET target == IF requestId \in pendingRequests[b] THEN requestId ELSE currentRequest[b].id
  IN IF target \in pendingRequests[b]
       THEN /\ timers' = [timers EXCEPT ![b] = @ \ {target}]
            /\ calls' = [calls EXCEPT ![target] =
                 [ResolveCall(@, feedback, "submit") EXCEPT !.accepted = Append(@, feedback)]]
            /\ microtasks' = [microtasks EXCEPT ![b] =
                 IF calls[target].pc = "waiting" THEN Append(@, target) ELSE @]
            /\ pendingRequests' = [pendingRequests EXCEPT ![b] = @ \ {target}]
       ELSE UNCHANGED <<timers, calls, microtasks, pendingRequests>>

\* SubmitEffect without pendingRequests.delete(requestId)
SubmitEffectKeepsEntry(b, requestId, feedback) ==
  IF requestId \in pendingRequests[b]
    THEN /\ timers' = [timers EXCEPT ![b] = @ \ {requestId}]
         /\ calls' = [calls EXCEPT ![requestId] =
              [ResolveCall(@, feedback, "submit") EXCEPT !.accepted = Append(@, feedback)]]
         /\ microtasks' = [microtasks EXCEPT ![b] =
              IF calls[requestId].pc = "waiting" THEN Append(@, requestId) ELSE @]
         /\ UNCHANGED pendingRequests
    ELSE UNCHANGED <<timers, calls, microtasks, pendingRequests>>

\* ... and what it does to the Broker: clearTimeout, resolve(feedback), delete
SubmitEffect(b, requestId, feedback) ==
  IF requestId \in pendingRequests[b]
    THEN /\ timers' = [timers EXCEPT ![b] = @ \ {requestId}]
         /\ calls' = [calls EXCEPT ![requestId] =
              [ResolveCall(@, feedback, "submit") EXCEPT !.accepted = Append(@, feedback)]]
         /\ microtasks' = [microtasks EXCEPT ![b] =
              IF calls[requestId].pc = "waiting" THEN Append(@, requestId) ELSE @]
         /\ pendingRequests' = [pendingRequests EXCEPT ![b] = @ \ {requestId}]
    ELSE UNCHANGED <<timers, calls, microtasks, pendingRequests>>

\* POST /api/feedback/submit sent by any HTTP client other than a window of the editor;
\* request id 0 is an id no call was ever given
RawSubmit(b, requestId, feedback) ==
  /\ Idle(b)
  /\ lastHttp' = [requestId |-> requestId, status |-> SubmitStatus(b, requestId)]
  /\ SubmitEffect(b, requestId, feedback)
  /\ UNCHANGED <<now, ticks, proc, env, port, occupied, startTime, currentRequest, ownerWorkspace,
                 shutdownTimer, nextId, pollerVars>>

\* JSON.parse(body) for the bodies of SubmitBodies: it throws, or gives a value of a kind
JSONparse(body) ==
  IF body = <<"n", "u", "l", "l">> THEN [threw |-> FALSE, kind |-> "null"]
  ELSE IF body # <<>> /\ \A i \in 1..Len(body) : body[i] \in DOMAIN DigitValue
    THEN [threw |-> FALSE, kind |-> "number"]
  ELSE IF body = <<"[", "]">> THEN [threw |-> FALSE, kind |-> "array"]
  ELSE IF body = <<"{", "}">> THEN [threw |-> FALSE, kind |-> "object"]
  ELSE [threw |-> TRUE, kind |-> "none"]

\* request bodies that are not {requestId, feedback}: empty, cut off, null, a number, an
\* array, an object without fields
SubmitBodies == {<<>>, <<"{">>, <<"n", "u", "l", "l">>, <<"5">>, <<"[", "]">>, <<"{", "}">>}

\* POST /api/feedback/submit with such a body: JSON.parse or the destructuring of null
\* throws and the catch answers 400; any other value destructures to an undefined requestId,
\* which pendingRequests.get does not find
BodySubmit(b, body) ==
  /\ Idle(b)
  /\ LET data == JSONparse(body) IN
       lastHttp' = [requestId |-> 0,
                    status |-> IF data.threw \/ data.kind = "null" THEN 400 ELSE 404]
  /\ UNCHANGED <<now, ticks, proc, env, port, occupied, startTime, currentRequest, ownerWorkspace,
                 pendingRequests, timers, microtasks, shutdownTimer, calls, nextId, pollerVars>>

\* StopEffect without clearTimeout(pending.timeout)
StopEffectKeepsTimers(b) ==
  /\ calls' = [id \in DOMAIN calls |->
       IF id \in pendingRequests[b] THEN ResolveCall(calls[id], FbNull, "stop") ELSE calls[id]]
  /\ microtasks' = [microtasks EXCEPT ![b] =
       @ \o SetToSeq({id \in pendingRequests[b] : calls[id].pc = "waiting"})]
  /\ timers' = timers
  /\ pendingRequests' = [pendingRequests EXCEPT ![b] = {}]

\* stop(): every pending call is resolved with null, its timer cleared, the map emptied
StopEffect(b) ==
  /\ calls' = [id \in DOMAIN calls |->
       IF id \in pendingRequests[b] THEN ResolveCall(calls[id], FbNull, "stop") ELSE calls[id]]
  /\ microtasks' = [microtasks EXCEPT ![b] =
       @ \o SetToSeq({id \in pendingRequests[b] : calls[id].pc = "waiting"})]
  /\ timers' = [timers EXCEPT ![b] = @ \ pendingRequests[b]]
  /\ pendingRequests' = [pendingRequests EXCEPT ![b] = {}]

\* SIGINT / SIGTERM: server.stop(); process.exit(0)
Signal(b) ==
  /\ Idle(b)
  /\ StopEffect(b)
  /\ proc' = [proc EXCEPT ![b] = "exited"]
  /\ UNCHANGED <<now, ticks, env, port, occupied, startTime, currentRequest, ownerWorkspace,
                 shutdownTimer, nextId, lastHttp, pollerVars>>

\* stdin 'close' / 'end': server.stop(); setTimeout(() => process.exit(0), 100)
StdinClose(b) ==
  /\ Idle(b)
  /\ StopEffect(b)
  /\ proc' = [proc EXCEPT ![b] = "closing"]
  /\ UNCHANGED <<now, ticks, env, port, occupied, startTime, currentRequest, ownerWorkspace,
                 shutdownTimer, nextId, lastHttp, pollerVars>>

\* the 100 ms exit timer armed on stdin close
ExitFire(b) ==
  /\ proc[b] = "closing"
  /\ microtasks[b] = <<>>
  /\ proc' = [proc EXCEPT ![b] = "exited"]
  /\ UNCHANGED <<now, ticks, env, port, occupied, startTime, currentRequest, ownerWorkspace, pendingRequests,
                 timers, microtasks, shutdownTimer, calls, nextId, lastHttp, pollerVars>>

\* POST /api/shutdown: answered {success: true}, and a 100 ms timer is armed
PostShutdown(b) ==
  /\ Idle(b)
  /\ ~shutdownTimer[b]
  /\ shutdownTimer' = [shutdownTimer EXCEPT ![b] = TRUE]
  /\ UNCHANGED <<now, ticks, proc, env, port, occupied, startTime, currentRequest, ownerWorkspace,
                 pendingRequests, timers, microtasks, calls, nextId, lastHttp, pollerVars>>

\* the timer of POST /api/shutdown: this.stop(); process.exit(0)
ShutdownFire(b) ==
  /\ Idle(b)
  /\ shutdownTimer[b]
  /\ StopEffect(b)
  /\ proc' = [proc EXCEPT ![b] = "exited"]
  /\ shutdownTimer' = [shutdownTimer EXCEPT ![b] = FALSE]
  /\ UNCHANGED <<now, ticks, env, port, occupied, startTime, currentRequest, ownerWorkspace,
                 nextId, lastHttp, pollerVars>>

\* Tick with an inactivity check that ends every serving Broker
TickInactivityExit ==
  /\ ticks < MaxTicks
  /\ \A b \in Brokers :
       /\ proc[b] # "closing"
       /\ proc[b] = "up" =>
            /\ microtasks[b] = <<>>
            /\ ~shutdownTimer[b]
            /\ \A id \in timers[b] : calls[id].deadline > now
  /\ now' = now + TickMs
  /\ ticks' = ticks + 1
  /\ proc' = [b \in Brokers |-> IF proc[b] = "up" THEN "exited" ELSE proc[b]]
  /\ UNCHANGED <<env, port, occupied, startTime, currentRequest, ownerWorkspace, pendingRequests, timers,
                 microtasks, shutdownTimer, calls, nextId, lastHttp, pollerVars>>

\* Time passes, once nothing is due any more: queued continuations, the 100 ms timers and
\* the request timers whose deadline has come run first
Tick ==
  /\ ticks < MaxTicks
  /\ \A b \in Brokers :
       /\ proc[b] # "closing"
       /\ proc[b] = "up" =>
            /\ microtasks[b] = <<>>
            /\ ~shutdownTimer[b]
            /\ \A id \in timers[b] : calls[id].deadline > now
  /\ now' = now + TickMs
  /\ ticks' = ticks + 1
  /\ UNCHANGED <<brokerVars, pollerVars>>

\* Time passes by ms at once, under the conditions of Tick, at most limit times
Advance(ms, limit) ==
  /\ ticks < limit
  /\ \A b \in Brokers :
       /\ proc[b] # "closing"
       /\ proc[b] = "up" =>
            /\ microtasks[b] = <<>>
            /\ ~shutdownTimer[b]
            /\ \A id \in timers[b] : calls[id].deadline > now /\ calls[id].deadline >= now + ms
  /\ now' = now + ms
  /\ ticks' = ticks + 1
  /\ UNCHANGED <<brokerVars, pollerVars>>

\* ---------------------------------------------------------- Poller helpers
PortOf(b) == port[b]

\* the workspace folders a window may have: none, one, or two (a multi-root workspace)
Workspaces == {<<>>, <<<<"/", "A", "/">>>>, <<PathB, PathA>>}

getWorkspacePaths(p) == workspaceFolders[p]

\* isPathInWorkspace with startsWith in place of ===
isPathInWorkspacePrefix(p, targetPath) ==
  LET workspacePaths == getWorkspacePaths(p)
      normalizedTarget == normalize(targetPath)
      isEmptyPath == \/ targetPath = <<>>
                     \/ targetPath = <<".">>
                     \/ normalizedTarget = <<>>
                     \/ normalizedTarget = <<".">>
  IN IF Len(workspacePaths) = 0 THEN isEmptyPath
     ELSE IF isEmptyPath THEN FALSE
     ELSE \E i \in 1..Len(workspacePaths) :
            LET w == normalize(workspacePaths[i])
            IN Len(w) <= Len(normalizedTarget) /\ SubSeq(normalizedTarget, 1, Len(w)) = w

isPathInWorkspace(p, targetPath) ==
  LET workspacePaths == getWorkspacePaths(p)
      normalizedTarget == normalize(targetPath)
      isEmptyPath == \/ targetPath = <<>>
                     \/ targetPath = <<".">>
                     \/ normalizedTarget = <<>>
                     \/ normalizedTarget = <<".">>
  IN IF Len(workspacePaths) = 0 THEN isEmptyPath
     ELSE IF isEmptyPath THEN FALSE
     ELSE \E i \in 1..Len(workspacePaths) : normalizedTarget = normalize(workspacePaths[i])

\* GET /api/feedback/current of Broker b
CurrentResponse(b) ==
  [request |-> currentRequest[b], ownerWorkspace |-> ownerWorkspace[b], startTime |-> startTime[b]]

\* the URL _checkPortForRequest of window p asks for: the path with the first workspace
\* folder and _latestServerStartTime as query parameters
CurrentUrl(p) ==
  [path |-> "/api/feedback/current", hasQuery |-> TRUE,
   workspace |-> IF Len(getWorkspacePaths(p)) > 0 THEN getWorkspacePaths(p)[1] ELSE <<>>,
   latestStartTime |-> latestServerStartTime[p]]

\* the same path without query parameters
PlainUrl == [path |-> "/api/feedback/current", hasQuery |-> FALSE, workspace |-> <<>>, latestStartTime |-> 0]

\* GetCurrent that hides the request from a caller whose workspace is not the owner
GetCurrentFiltered(b, url) ==
  IF url.hasQuery /\ normalize(url.workspace) = ownerWorkspace[b]
    THEN CurrentResponse(b)
    ELSE [CurrentResponse(b) EXCEPT !.request = NoRequest]

\* the handler of GET on a URL that starts with /api/feedback/current: the query is not read
GetCurrent(b, url) == CurrentResponse(b)

\* _checkPortForRequest(port) of window p when Broker b answers on that port
CheckPortResult(p, b) ==
  LET parsed == GetCurrent(b, CurrentUrl(p))
      request == parsed.request
  IN IF request.id # 0 /\ ~isPathInWorkspace(p, request.projectDir)
       THEN [connected |-> TRUE, request |-> NoRequest, port |-> PortOf(b), mismatch |-> TRUE,
             ownerWorkspace |-> parsed.ownerWorkspace, startTime |-> parsed.startTime]
       ELSE [connected |-> TRUE, request |-> request, port |-> PortOf(b), mismatch |-> FALSE,
             ownerWorkspace |-> parsed.ownerWorkspace, startTime |-> parsed.startTime]

\* isMyServer of _pollForFeedbackRequest
isMyServer(p, r) ==
  LET workspacePaths == getWorkspacePaths(p)
      currentWorkspace == IF Len(workspacePaths) > 0 THEN workspacePaths[1] ELSE <<>>
      serverOwner == IF r.ownerWorkspace # Null /\ r.ownerWorkspace # <<>>
                       THEN normalize(r.ownerWorkspace) ELSE <<>>
  IN serverOwner = <<>> \/ serverOwner = normalize(currentWorkspace)

Max(S) == IF S = {} THEN 0 ELSE CHOOSE x \in S : \A y \in S : y <= x

\* MaxStartTime over every connected result, without isMyServer
MaxStartTimeAnyServer(p, results) ==
  Max({r.startTime : r \in {q \in results : q.connected /\ q.startTime # 0}})

\* maxStartTime of _pollForFeedbackRequest
MaxStartTime(p, results) ==
  Max({r.startTime : r \in {q \in results : q.connected /\ q.startTime # 0 /\ isMyServer(p, q)}})

\* ValidRequests without the _seenRequestIds.has filter
ValidRequestsUnfiltered(results, seen) ==
  {r \in results : r.request.id # 0}

\* validRequests before sorting: the results with a request whose id has not been seen
ValidRequests(results, seen) ==
  {r \in results : r.request.id # 0 /\ \A i \in 1..Len(seen) : seen[i] # r.request.id}

\* SortsBefore without the comparison of startTime: equal timestamps fall to port order
SortsBeforeNoStartTime(a, b) ==
  \/ a.request.timestamp > b.request.timestamp
  \/ /\ a.request.timestamp = b.request.timestamp
     /\ a.port <= b.port

\* the comparator of validRequests.sort: a comes before b; the sort is stable and the
\* results are in port order
SortsBefore(a, b) ==
  \/ a.request.timestamp > b.request.timestamp
  \/ /\ a.request.timestamp = b.request.timestamp
     /\ \/ a.startTime > b.startTime
        \/ a.startTime = b.startTime /\ a.port <= b.port

\* validRequests[0]
Newest(valid) == CHOOSE r \in valid : \A q \in valid : SortsBefore(r, q)

\* AddSeen with slice(0, 50) in place of slice(-50)
AddSeenKeepsOldest(seen, id) ==
  LET ids == Append(seen, id)
  IN IF Len(ids) > SeenLimit THEN SubSeq(ids, 1, SeenKeep) ELSE ids

\* the seen set after _seenRequestIds.add(id) and the trimming that follows
AddSeen(seen, id) ==
  LET ids == Append(seen, id)
  IN IF Len(ids) > SeenLimit THEN SubSeq(ids, Len(ids) - SeenKeep + 1, Len(ids)) ELSE ids

\* a counter per request id; an id not counted yet is at 0
Count(f, id) == IF id \in DOMAIN f THEN f[id] ELSE 0
Incr(f, id) == [x \in DOMAIN f \cup {id} |-> IF x = id THEN Count(f, id) + 1 ELSE f[x]]

\* the state of a window that _handleNewRequest reads and writes
PollerState(p) ==
  [request |-> pollerRequest[p], activePort |-> activePort[p], seen |-> seenRequestIds[p],
   form |-> formRequestId[p], attention |-> attention[p], displays |-> displays[p]]

\* handleNewRequest without _seenRequestIds.add(request.id)
handleNewRequestNoMark(st, request, requestPort, t) ==
  IF \E i \in 1..Len(st.seen) : st.seen[i] = request.id THEN st
  ELSE
    LET isFreshRequest == t - request.timestamp < FreshMs
    IN IF st.request.id = 0 \/ request.id # st.request.id
         THEN [st EXCEPT !.request = request,
                         !.activePort = requestPort,
                         !.form = request.id,
                         !.displays = Incr(@, request.id),
                         !.attention = IF isFreshRequest THEN Incr(@, request.id) ELSE @]
         ELSE st

\* handleNewRequest with requestAge <= 10000 as the freshness test
handleNewRequestInclusive(st, request, requestPort, t) ==
  IF \E i \in 1..Len(st.seen) : st.seen[i] = request.id THEN st
  ELSE
    LET isFreshRequest == t - request.timestamp <= FreshMs
        marked == [st EXCEPT !.seen = AddSeen(st.seen, request.id)]
    IN IF st.request.id = 0 \/ request.id # st.request.id
         THEN [marked EXCEPT !.request = request,
                             !.activePort = requestPort,
                             !.form = request.id,
                             !.displays = Incr(@, request.id),
                             !.attention = IF isFreshRequest THEN Incr(@, request.id) ELSE @]
         ELSE marked

\* _handleNewRequest(request, port) at time t
handleNewRequest(st, request, requestPort, t) ==
  IF \E i \in 1..Len(st.seen) : st.seen[i] = request.id THEN st
  ELSE
    LET isFreshRequest == t - request.timestamp < FreshMs
        marked == [st EXCEPT !.seen = AddSeen(st.seen, request.id)]
    IN IF st.request.id = 0 \/ request.id # st.request.id
         THEN [marked EXCEPT !.request = request,
                             !.activePort = requestPort,
                             !.form = request.id,
                             !.displays = Incr(@, request.id),
                             !.attention = IF isFreshRequest THEN Incr(@, request.id) ELSE @]
         ELSE marked

\* _pollForFeedbackRequest from the line after its await: what the results of the ports do
\* to the window
AfterScan(st, results, t) ==
  LET validRequests == ValidRequests(results, st.seen)
  IN IF validRequests # {}
       THEN LET newest == Newest(validRequests)
            IN handleNewRequest([st EXCEPT !.activePort = newest.port], newest.request, newest.port, t)
       ELSE st

\* ---------------------------------------------------------- Poller actions
NoScan == [waiting |-> {}, results |-> {}]
\* no _checkServerHealth run in flight (probing: the index of the port to probe next, from
\* 1), no serverStatus message posted yet
NoHealth == [probing |-> 0, posted |-> FALSE, connected |-> FALSE, port |-> 0,
             hasCurrentRequest |-> FALSE]
NoSubmit == [stage |-> "idle", port |-> 0, requestId |-> 0, feedback |-> FbNull, status |-> 0]

\* the ports of _pollForFeedbackRequest: _basePort + i for i < _portScanRange
ScanPorts == BasePort..(BasePort + PortScanRange - 1)

\* the synchronous head of _pollForFeedbackRequest: a GET goes to every port of the range;
\* a port no Broker listens on refuses the connection at once
NewScan ==
  [waiting |-> {b \in Brokers : proc[b] = "up" /\ PortOf(b) \in ScanPorts}, results |-> {}]

\* startPolling() without the check of _pollingInterval
StartPollingUnguarded(p) ==
  /\ pollingInterval' = [pollingInterval EXCEPT ![p] = TRUE]
  /\ intervals' = [intervals EXCEPT ![p] = @ + 1]
  /\ scans' = [scans EXCEPT ![p] = Append(@, NewScan)]
  /\ UNCHANGED <<now, ticks, brokerVars, workspaceFolders, pollerRequest, activePort,
                 seenRequestIds, latestServerStartTime, formRequestId, submit, attention, displays, health>>

\* startPolling(): nothing if the interval is set; else the interval is set and one scan
\* runs at once
StartPolling(p) ==
  IF pollingInterval[p] THEN UNCHANGED vars
  ELSE
    /\ pollingInterval' = [pollingInterval EXCEPT ![p] = TRUE]
    /\ intervals' = [intervals EXCEPT ![p] = @ + 1]
    /\ scans' = [scans EXCEPT ![p] = Append(@, NewScan)]
    /\ UNCHANGED <<now, ticks, brokerVars, workspaceFolders, pollerRequest, activePort,
                   seenRequestIds, latestServerStartTime, formRequestId, submit, attention,
                   displays, health>>

\* stopPolling(): clearInterval of the handle the field holds, if it holds one
StopPolling(p) ==
  IF pollingInterval[p]
    THEN /\ pollingInterval' = [pollingInterval EXCEPT ![p] = FALSE]
         /\ intervals' = [intervals EXCEPT ![p] = @ - 1]
         /\ UNCHANGED <<now, ticks, brokerVars, workspaceFolders, pollerRequest, activePort,
                        scans, seenRequestIds, latestServerStartTime, formRequestId, submit,
                        attention, displays, health>>
    ELSE UNCHANGED vars

\* the setInterval callback of startPolling
IntervalScan(p) ==
  /\ intervals[p] > 0
  /\ scans' = [scans EXCEPT ![p] = Append(@, NewScan)]
  /\ UNCHANGED <<now, ticks, brokerVars, workspaceFolders, pollingInterval, intervals, pollerRequest,
                 activePort, seenRequestIds, latestServerStartTime, formRequestId, submit,
                 attention, displays, health>>

\* the catch of _checkPortForRequest: what a port that failed contributes to the results
FailedResult(b) ==
  [connected |-> FALSE, request |-> NoRequest, port |-> PortOf(b), mismatch |-> FALSE,
   ownerWorkspace |-> Null, startTime |-> 0]

\* CheckPort without the try/catch of _checkPortForRequest: a failed GET rejects Promise.all
\* and the scan ends in the catch of _pollForFeedbackRequest
CheckPortRejects(p, k, b) ==
  /\ k \in 1..Len(scans[p])
  /\ b \in scans[p][k].waiting
  /\ proc[b] = "up" => microtasks[b] = <<>>
  /\ scans' = [scans EXCEPT ![p] =
       IF proc[b] = "up"
         THEN [@ EXCEPT ![k] = [waiting |-> @.waiting \ {b},
                                results |-> @.results \cup {CheckPortResult(p, b)}]]
         ELSE SubSeq(@, 1, k - 1) \o SubSeq(@, k + 1, Len(@))]
  /\ UNCHANGED <<now, ticks, brokerVars, workspaceFolders, pollingInterval, intervals, pollerRequest,
                 activePort, seenRequestIds, latestServerStartTime, formRequestId, submit,
                 attention, displays, health>>

\* one GET /api/feedback/current of scan k of window p completes: Broker b answers, or the
\* request fails because the process is gone
CheckPort(p, k, b) ==
  /\ k \in 1..Len(scans[p])
  /\ b \in scans[p][k].waiting
  /\ proc[b] = "up" => microtasks[b] = <<>>
  /\ scans' = [scans EXCEPT ![p][k] =
       [waiting |-> @.waiting \ {b},
        results |-> @.results \cup
                      {IF proc[b] = "up" THEN CheckPortResult(p, b) ELSE FailedResult(b)}]]
  /\ UNCHANGED <<now, ticks, brokerVars, workspaceFolders, pollingInterval, intervals, pollerRequest,
                 activePort, seenRequestIds, latestServerStartTime, formRequestId, submit,
                 attention, displays, health>>

\* one GET of scan k of window p fails although a process listens on the port: the 3 s
\* timeout of _httpGet passes, or JSON.parse throws on the answer
CheckPortFails(p, k, b) ==
  /\ k \in 1..Len(scans[p])
  /\ b \in scans[p][k].waiting
  /\ scans' = [scans EXCEPT ![p][k] =
       [waiting |-> @.waiting \ {b}, results |-> @.results \cup {FailedResult(b)}]]
  /\ UNCHANGED <<now, ticks, brokerVars, workspaceFolders, pollingInterval, intervals, pollerRequest,
                 activePort, seenRequestIds, latestServerStartTime, formRequestId, submit,
                 attention, displays, health>>

RemoveAt(s, k) == SubSeq(s, 1, k - 1) \o SubSeq(s, k + 1, Len(s))

\* Promise.all of scan k of window p has resolved: the rest of _pollForFeedbackRequest
ScanFinish(p, k) ==
  /\ k \in 1..Len(scans[p])
  /\ scans[p][k].waiting = {}
  /\ LET st == AfterScan(PollerState(p), scans[p][k].results, now) IN
       /\ pollerRequest' = [pollerRequest EXCEPT ![p] = st.request]
       /\ activePort' = [activePort EXCEPT ![p] = st.activePort]
       /\ seenRequestIds' = [seenRequestIds EXCEPT ![p] = st.seen]
       /\ formRequestId' = [formRequestId EXCEPT ![p] = st.form]
       /\ attention' = [attention EXCEPT ![p] = st.attention]
       /\ displays' = [displays EXCEPT ![p] = st.displays]
  /\ latestServerStartTime' = [latestServerStartTime EXCEPT ![p] = MaxStartTime(p, scans[p][k].results)]
  /\ scans' = [scans EXCEPT ![p] = RemoveAt(@, k)]
  /\ UNCHANGED <<now, ticks, brokerVars, workspaceFolders, pollingInterval, intervals, submit,
                 health>>

\* the webview posts 'checkServer' (on load and every 5 s): _checkServerHealth begins at
\* the first port of the range
CheckServer(p) ==
  /\ health[p].probing = 0
  /\ health' = [health EXCEPT ![p] = [@ EXCEPT !.probing = 1]]
  /\ UNCHANGED <<now, ticks, brokerVars, workspaceFolders, pollingInterval, intervals, pollerRequest,
                 activePort, seenRequestIds, latestServerStartTime, scans, formRequestId, submit,
                 attention, displays>>

\* the next port of the loop of _checkServerHealth after a port that did not answer, or
\* the message {connected: false} after the last one
HealthNext(h) ==
  IF h.probing < PortScanRange
    THEN [h EXCEPT !.probing = @ + 1]
    ELSE [probing |-> 0, posted |-> TRUE, connected |-> FALSE, port |-> 0,
          hasCurrentRequest |-> FALSE]

\* HealthProbe that passes over a Broker another workspace owns
HealthProbeOwnWorkspace(p) ==
  /\ health[p].probing > 0
  /\ LET probed == BasePort + health[p].probing - 1
         answering == {b \in Brokers : proc[b] = "up" /\ PortOf(b) = probed}
     IN /\ \A b \in answering : microtasks[b] = <<>>
        /\ health' = [health EXCEPT ![p] =
             IF \E b \in answering :
                  isMyServer(p, [ownerWorkspace |-> ownerWorkspace[b]])
               THEN [probing |-> 0, posted |-> TRUE, connected |-> TRUE, port |-> probed,
                     hasCurrentRequest |-> \E b \in answering : currentRequest[b].id # 0]
               ELSE HealthNext(@)]
  /\ UNCHANGED <<now, ticks, brokerVars, workspaceFolders, pollingInterval, intervals, pollerRequest,
                 activePort, seenRequestIds, latestServerStartTime, scans, formRequestId, submit,
                 attention, displays>>

\* one GET /api/health of _checkServerHealth completes: the Broker on the port answers
\* {status, hasCurrentRequest, pid} and serverStatus {connected: true, port, ...} is posted,
\* or nothing answers on the port and the loop goes on
HealthProbe(p) ==
  /\ health[p].probing > 0
  /\ LET probed == BasePort + health[p].probing - 1
         answering == {b \in Brokers : proc[b] = "up" /\ PortOf(b) = probed}
     IN /\ \A b \in answering : microtasks[b] = <<>>
        /\ health' = [health EXCEPT ![p] =
             IF answering # {}
               THEN [probing |-> 0, posted |-> TRUE, connected |-> TRUE, port |-> probed,
                     hasCurrentRequest |-> \E b \in answering : currentRequest[b].id # 0]
               ELSE HealthNext(@)]
  /\ UNCHANGED <<now, ticks, brokerVars, workspaceFolders, pollingInterval, intervals, pollerRequest,
                 activePort, seenRequestIds, latestServerStartTime, scans, formRequestId, submit,
                 attention, displays>>

\* one GET /api/health fails although a Broker listens on the port: the 3 s timeout passes
HealthProbeFails(p) ==
  /\ health[p].probing > 0
  /\ \E b \in Brokers : proc[b] = "up" /\ PortOf(b) = BasePort + health[p].probing - 1
  /\ health' = [health EXCEPT ![p] = HealthNext(@)]
  /\ UNCHANGED <<now, ticks, brokerVars, workspaceFolders, pollingInterval, intervals, pollerRequest,
                 activePort, seenRequestIds, latestServerStartTime, scans, formRequestId, submit,
                 attention, displays>>

\* the view becomes visible again, or the webview reports ready: _showFeedbackRequest
Reshow(p) ==
  /\ pollerRequest[p].id # 0
  /\ formRequestId[p] # pollerRequest[p].id
  /\ formRequestId' = [formRequestId EXCEPT ![p] = pollerRequest[p].id]
  /\ UNCHANGED <<now, ticks, brokerVars, workspaceFolders, pollingInterval, intervals, pollerRequest,
                 activePort, seenRequestIds, latestServerStartTime, scans, submit,
                 attention, displays, health>>

\* submitFeedback() of the webview script: the message is posted and the form is reset (the
\* text, the images, the attached paths and currentRequestId are emptied together)
PressSubmit(p, feedback) ==
  /\ formRequestId[p] # 0
  /\ submit[p].stage = "idle"
  /\ submit' = [submit EXCEPT ![p] =
       [NoSubmit EXCEPT !.stage = "posted", !.requestId = formRequestId[p], !.feedback = feedback]]
  /\ formRequestId' = [formRequestId EXCEPT ![p] = 0]
  /\ UNCHANGED <<now, ticks, brokerVars, workspaceFolders, pollingInterval, intervals, pollerRequest,
                 activePort, seenRequestIds, latestServerStartTime, scans, attention, displays, health>>

\* _handleFeedbackSubmit up to its await: the port is chosen and the POST is sent
SendSubmit(p) ==
  /\ submit[p].stage = "posted"
  /\ submit' = [submit EXCEPT ![p] =
       [@ EXCEPT !.stage = "sent", !.port = IF activePort[p] # 0 THEN activePort[p] ELSE BasePort]]
  /\ UNCHANGED <<now, ticks, brokerVars, workspaceFolders, pollingInterval, intervals, pollerRequest,
                 activePort, seenRequestIds, latestServerStartTime, scans, formRequestId,
                 attention, displays, health>>

\* the Broker listening on the port handles the POST of window p
DeliverSubmit(p, b) ==
  /\ submit[p].stage = "sent"
  /\ PortOf(b) = submit[p].port
  /\ Idle(b)
  /\ submit' = [submit EXCEPT ![p] =
       [@ EXCEPT !.stage = "answered", !.status = SubmitStatus(b, submit[p].requestId)]]
  /\ SubmitEffect(b, submit[p].requestId, submit[p].feedback)
  /\ UNCHANGED <<now, ticks, proc, env, port, occupied, startTime, currentRequest, ownerWorkspace,
                 shutdownTimer, nextId, lastHttp, workspaceFolders, pollingInterval, intervals,
                 pollerRequest, activePort, seenRequestIds, latestServerStartTime, scans,
                 formRequestId, attention, displays, health>>

\* no Broker listens on the port: _httpPost rejects
FailSubmit(p) ==
  /\ submit[p].stage = "sent"
  /\ \A b \in Brokers : PortOf(b) = submit[p].port => proc[b] # "up"
  /\ submit' = [submit EXCEPT ![p] = [@ EXCEPT !.stage = "failed"]]
  /\ UNCHANGED <<now, ticks, brokerVars, workspaceFolders, pollingInterval, intervals, pollerRequest,
                 activePort, seenRequestIds, latestServerStartTime, scans, formRequestId,
                 attention, displays, health>>

\* the 5 s timeout of _httpPost: the request is destroyed and the promise rejects, whether
\* or not the Broker has handled the POST
SubmitTimeout(p) ==
  /\ submit[p].stage \in {"sent", "answered"}
  /\ submit' = [submit EXCEPT ![p] = [@ EXCEPT !.stage = "failed"]]
  /\ UNCHANGED <<now, ticks, brokerVars, workspaceFolders, pollingInterval, intervals, pollerRequest,
                 activePort, seenRequestIds, latestServerStartTime, scans, formRequestId,
                 attention, displays, health>>

\* SubmitResult that goes back to the waiting state whatever the outcome
SubmitResultAlwaysWaiting(p) ==
  /\ submit[p].stage \in {"answered", "failed"}
  /\ pollerRequest' = [pollerRequest EXCEPT ![p] = NoRequest]
  /\ formRequestId' = [formRequestId EXCEPT ![p] = 0]
  /\ submit' = [submit EXCEPT ![p] = NoSubmit]
  /\ UNCHANGED <<now, ticks, brokerVars, workspaceFolders, pollingInterval, intervals, activePort,
                 seenRequestIds, latestServerStartTime, scans, attention, displays, health>>

\* _handleFeedbackSubmit after its await: success empties the displayed request and shows
\* the waiting state, anything else raises an error message
SubmitResult(p) ==
  /\ submit[p].stage \in {"answered", "failed"}
  /\ IF submit[p].stage = "answered" /\ submit[p].status = 200
       THEN /\ pollerRequest' = [pollerRequest EXCEPT ![p] = NoRequest]
            /\ formRequestId' = [formRequestId EXCEPT ![p] = 0]
       ELSE UNCHANGED <<pollerRequest, formRequestId>>
  /\ submit' = [submit EXCEPT ![p] = NoSubmit]
  /\ UNCHANGED <<now, ticks, brokerVars, workspaceFolders, pollingInterval, intervals, activePort,
                 seenRequestIds, latestServerStartTime, scans, attention, displays, health>>

\* ------------------------------------------------------------ the system
\* the state after construction: no Broker process started, every window constructed with
\* the given workspace folders and not polling yet
StartWith(folders, ports) ==
  /\ now = 0
  /\ occupied = ports
  /\ ticks = 0
  /\ proc = [b \in Brokers |-> "down"]
  /\ env = [b \in Brokers |-> [timeout |-> Null, autoRetry |-> TRUE]]
  /\ port = [b \in Brokers |-> BasePort]
  /\ startTime = [b \in Brokers |-> 0]
  /\ currentRequest = [b \in Brokers |-> NoRequest]
  /\ ownerWorkspace = [b \in Brokers |-> Null]
  /\ pendingRequests = [b \in Brokers |-> {}]
  /\ timers = [b \in Brokers |-> {}]
  /\ microtasks = [b \in Brokers |-> <<>>]
  /\ shutdownTimer = [b \in Brokers |-> FALSE]
  /\ calls = <<>>
  /\ nextId = 1
  /\ lastHttp = [requestId |-> 0, status |-> 0]
  /\ workspaceFolders = folders
  /\ pollingInterval = [p \in Pollers |-> FALSE]
  /\ intervals = [p \in Pollers |-> 0]
  /\ pollerRequest = [p \in Pollers |-> NoRequest]
  /\ activePort = [p \in Pollers |-> 0]
  /\ seenRequestIds = [p \in Pollers |-> <<>>]
  /\ latestServerStartTime = [p \in Pollers |-> 0]
  /\ scans = [p \in Pollers |-> <<>>]
  /\ formRequestId = [p \in Pollers |-> 0]
  /\ submit = [p \in Pollers |-> NoSubmit]
  /\ attention = [p \in Pollers |-> <<>>]
  /\ displays = [p \in Pollers |-> <<>>]
  /\ health = [p \in Pollers |-> NoHealth]

\* ... on a machine where no other program listens on a port of the range
Start(folders) == StartWith(folders, {})

\* The Broker protocol: one Broker process, its tool calls, timers and shutdown paths, and
\* HTTP clients that submit any request id; no window polls.
SpecDirs == {PathAWin}
SpecEnvs == {[timeout |-> Null, autoRetry |-> TRUE], [timeout |-> <<"2">>, autoRetry |-> FALSE]}

Init == Start([p \in Pollers |-> <<>>])

Next ==
  \/ \E e \in SpecEnvs : StartBroker(1, e)
  \/ nextId <= MaxCalls /\ InvalidCall(1)
  \/ \E d \in SpecDirs, t \in ArgTimeouts : nextId <= MaxCalls /\ InteractiveFeedback(1, d, t)
  \/ \E id \in DOMAIN calls : TimerFire(1, id)
  \/ Resume(1)
  \/ \E id \in {0} \cup DOMAIN calls, f \in RawFeedbacks : RawSubmit(1, id, f)
  \/ Signal(1)
  \/ StdinClose(1)
  \/ ExitFire(1)
  \/ PostShutdown(1)
  \/ ShutdownFire(1)
  \/ Tick

Spec == Init /\ [][Next]_vars

\* The Broker protocol with no signal and stdin left open: what the tool-call side and
\* the HTTP side alone can do.
NextHttp ==
  \/ \E e \in SpecEnvs : StartBroker(1, e)
  \/ nextId <= MaxCalls /\ InvalidCall(1)
  \/ \E d \in SpecDirs, t \in ArgTimeouts : nextId <= MaxCalls /\ InteractiveFeedback(1, d, t)
  \/ \E id \in DOMAIN calls : TimerFire(1, id)
  \/ Resume(1)
  \/ \E id \in {0} \cup DOMAIN calls, f \in RawFeedbacks : RawSubmit(1, id, f)
  \/ PostShutdown(1)
  \/ ShutdownFire(1)
  \/ Tick

SpecHttp == Init /\ [][NextHttp]_vars

\* One window, two Brokers: discovery, workspace matching and the choice among the
\* requests of several Brokers. The window has no folder, one folder, or two, and runs one
\* scan at a time. Every request has the default timeout, which is beyond the horizon of
\* the clock, and no request is answered.
PollDirs == {PathAWin, PathAB, PathDot, PathRoot}
PollEnv == [timeout |-> Null, autoRetry |-> TRUE]

PollBrokers == {1, 2}

InitPoll == \E w \in Workspaces : Start([p \in Pollers |-> w])

NextPoll ==
  \/ \E b \in PollBrokers : StartBroker(b, PollEnv)
  \/ \E b \in PollBrokers : BindRetry(b)
  \/ \E b \in PollBrokers, d \in PollDirs : nextId <= PollCalls /\ InteractiveFeedback(b, d, NoArg)
  \/ scans[1] = <<>> /\ StartPolling(1)
  \/ scans[1] = <<>> /\ IntervalScan(1)
  \/ \E b \in Brokers : CheckPort(1, 1, b)
  \/ ScanFinish(1, 1)
  \/ Tick

SpecPoll == InitPoll /\ [][NextPoll]_vars

\* Two windows on the same workspace, one Broker: both display the same request and both
\* answer it, while its one-second timer runs. Each window runs one scan at a time.
InitRace == Start([p \in Pollers |-> IF p = 1 THEN <<PathA>> ELSE <<<<"/", "A", "/">>>>])

NextRace ==
  \/ StartBroker(1, PollEnv)
  \/ nextId <= RaceCalls /\ InteractiveFeedback(1, PathAWin, Arg(1))
  \/ \E id \in DOMAIN calls : TimerFire(1, id)
  \/ Resume(1)
  \/ \E p \in Pollers : scans[p] = <<>> /\ StartPolling(p)
  \/ \E p \in Pollers : scans[p] = <<>> /\ IntervalScan(p)
  \/ \E p \in Pollers : CheckPort(p, 1, 1)
  \/ \E p \in Pollers : ScanFinish(p, 1)
  \/ \E p \in Pollers : \E f \in PollerFeedbacks(p) : PressSubmit(p, f)
  \/ \E p \in Pollers : SendSubmit(p)
  \/ \E p \in Pollers : DeliverSubmit(p, 1)
  \/ \E p \in Pollers : SubmitResult(p)
  \/ Tick

SpecRace == InitRace /\ [][NextRace]_vars

\* One Broker, one window, and an agent that calls again once the window has taken up its
\* last request: the window sees one request id after the other.
InitSeen == Start([p \in Pollers |-> <<PathA>>])

NextSeen ==
  \/ StartBroker(1, PollEnv)
  \/ /\ nextId <= SeenCalls
     /\ \A i \in pendingRequests[1] : \E k \in 1..Len(seenRequestIds[1]) : seenRequestIds[1][k] = i
     /\ InteractiveFeedback(1, PathAWin, NoArg)
  \/ scans[1] = <<>> /\ StartPolling(1)
  \/ scans[1] = <<>> /\ IntervalScan(1)
  \/ CheckPort(1, 1, 1)
  \/ ScanFinish(1, 1)

SpecSeen == InitSeen /\ [][NextSeen]_vars

\* One window whose commands start and stop polling in any order, with up to LoopScans
\* scans in flight, one Broker for the scans to reach, and answers submitted from the window.
InitLoop == Start([p \in Pollers |-> <<PathA>>])

NextLoop ==
  \/ StartBroker(1, PollEnv)
  \/ nextId <= PollCalls /\ InteractiveFeedback(1, PathAWin, NoArg)
  \/ (pollingInterval[1] \/ Len(scans[1]) < LoopScans) /\ StartPolling(1)
  \/ StopPolling(1)
  \/ Len(scans[1]) < LoopScans /\ IntervalScan(1)
  \/ \E k \in 1..LoopScans : CheckPort(1, k, 1)
  \/ \E k \in 1..LoopScans : ScanFinish(1, k)
  \/ \E f \in PollerFeedbacks(1) : PressSubmit(1, f)
  \/ SendSubmit(1)
  \/ DeliverSubmit(1, 1)
  \/ SubmitResult(1)
  \/ Resume(1)
  \/ Signal(1)
  \/ FailSubmit(1)
  \/ SubmitTimeout(1)

SpecLoop == InitLoop /\ [][NextLoop]_vars

\* One Broker started with any value of MCP_FEEDBACK_TIMEOUT and called with any timeout
\* argument.
EnvChars == {"0", "2", "x"}
TimeoutRaws ==
  {Null, <<>>, <<"-", "2">>, <<" ", "2">>}
    \cup {<<a>> : a \in EnvChars} \cup {<<a, b>> : a \in EnvChars, b \in EnvChars}
TimeoutArgs == {NoArg, Arg(1), Arg(3)}

NextTimeout ==
  \/ \E raw \in TimeoutRaws : StartBroker(1, [timeout |-> raw, autoRetry |-> TRUE])
  \/ \E a \in TimeoutArgs : nextId <= TimeoutCalls /\ InteractiveFeedback(1, PathAWin, a)
  \/ \E id \in DOMAIN calls : TimerFire(1, id)
  \/ Resume(1)
  \/ Tick

SpecTimeout == Init /\ [][NextTimeout]_vars

\* One Broker called for several project directories, with submits, timeouts and a
\* window that polls it.
OwnerDirs == {PathAWin, PathB, PathRoot}

NextOwner ==
  \/ StartBroker(1, PollEnv)
  \/ nextId <= MaxCalls /\ InvalidCall(1)
  \/ \E d \in OwnerDirs : nextId <= MaxCalls /\ InteractiveFeedback(1, d, Arg(1))
  \/ \E id \in DOMAIN calls : TimerFire(1, id)
  \/ Resume(1)
  \/ \E id \in DOMAIN calls : RawSubmit(1, id, FbText("raw"))
  \/ \E body \in SubmitBodies : BodySubmit(1, body)
  \/ scans[1] = <<>> /\ StartPolling(1)
  \/ CheckPort(1, 1, 1)
  \/ ScanFinish(1, 1)
  \/ Tick

SpecOwner == InitSeen /\ [][NextOwner]_vars

\* Three Broker processes started from the same base port in any order, with tool calls
\* and signals that end a process.
NextBind ==
  \/ \E b \in Brokers : StartBroker(b, PollEnv)
  \/ \E b \in Brokers : BindRetry(b)
  \/ \E b \in Brokers : BindError(b)
  \/ \E b \in Brokers : Signal(b)
  \/ \E b \in Brokers : nextId <= BindCalls /\ InteractiveFeedback(b, PathAWin, Arg(1))
  \/ \E b \in Brokers, id \in DOMAIN calls : TimerFire(b, id)
  \/ \E b \in Brokers : Resume(b)
  \/ Tick

SpecBind == Init /\ [][NextBind]_vars

\* Two Brokers called for the workspace of one window, which displays their requests and
\* answers them; a scan may end between the press of submit and the sending of the POST.
NextSwitch ==
  \/ \E b \in PollBrokers : StartBroker(b, PollEnv)
  \/ \E b \in PollBrokers : BindRetry(b)
  \/ \E b \in PollBrokers : nextId <= PollCalls /\ InteractiveFeedback(b, PathAWin, NoArg)
  \/ \E b \in PollBrokers : Resume(b)
  \/ scans[1] = <<>> /\ StartPolling(1)
  \/ scans[1] = <<>> /\ IntervalScan(1)
  \/ \E b \in PollBrokers : CheckPort(1, 1, b)
  \/ ScanFinish(1, 1)
  \/ \E f \in PollerFeedbacks(1) : PressSubmit(1, f)
  \/ SendSubmit(1)
  \/ \E b \in PollBrokers : DeliverSubmit(1, b)
  \/ SubmitResult(1)
  \/ Tick

SpecSwitch == InitSeen /\ [][NextSwitch]_vars

\* One Broker started on a machine where other programs hold the first ports of the range,
\* and one window of its workspace that keeps polling. The request has the default timeout,
\* which is beyond the horizon of the clock.
OccupiedSets == {{}, BasePort..(BasePort + PortScanRange - 2), BasePort..(BasePort + PortScanRange - 1)}

InitRange == \E ports \in OccupiedSets : StartWith([p \in Pollers |-> <<PathA>>], ports)

NextRange ==
  \/ StartBroker(1, PollEnv)
  \/ BindRetry(1)
  \/ nextId <= RangeCalls /\ InteractiveFeedback(1, PathAWin, NoArg)
  \/ scans[1] = <<>> /\ StartPolling(1)
  \/ scans[1] = <<>> /\ IntervalScan(1)
  \/ CheckPort(1, 1, 1)
  \/ ScanFinish(1, 1)

SpecRange == InitRange /\ [][NextRange]_vars

\* ... where the interval timer keeps firing, every GET is answered or refused, and the
\* continuation of a scan runs once all its GETs have settled
LiveRange ==
  /\ SpecRange
  /\ WF_vars(scans[1] = <<>> /\ IntervalScan(1))
  /\ WF_vars(CheckPort(1, 1, 1))
  /\ WF_vars(ScanFinish(1, 1))

\* One call answered with a feedback of any text, attached files and up to MaxImages
\* images, whose names have the known extensions in either case, another extension, a
\* trailing dot, or no dot at all.
MimeNames ==
  {<<"a", ".", "j", "p", "g">>, <<"a", ".", "J", "P", "E", "G">>, ImgPng, ImgJpeg,
   <<"a", ".", "G", "i", "F">>, <<"a", ".", "w", "e", "b", "p">>, <<"a", ".", "b", "m", "p">>,
   <<"a", ".">>, <<"a">>, <<"g", "i", "f">>}

MimeImages == UNION {[1..n -> MimeNames] : n \in 0..MaxImages}

MimeFeedbacks ==
  {[isNull |-> FALSE, malformed |-> FALSE, interactive_feedback |-> t, images |-> imgs,
    attachedFiles |-> files] :
     t \in {"", "see"}, imgs \in MimeImages, files \in {<<>>, <<PathA>>}}

NextMime ==
  \/ StartBroker(1, PollEnv)
  \/ calls = <<>> /\ InteractiveFeedback(1, PathAWin, NoArg)
  \/ \E id \in pendingRequests[1], f \in MimeFeedbacks : RawSubmit(1, id, f)
  \/ Resume(1)

SpecMime == Init /\ [][NextMime]_vars

\* Two runs of the Broker side by side: Broker 1 with the retry hint, Broker 2 with
\* MCP_AUTO_RETRY=false. Broker 1 takes a step when the two are level, Broker 2 when it is
\* behind; time passes when they are level. Sharing one machine, the two bind different
\* ports and their calls get different request ids, so a run is read with its ids
\* replaced by their rank among the calls of the run, and without its port.
RetryEnv(autoRetry) == [timeout |-> Null, autoRetry |-> autoRetry]

CallIds(b) == {id \in DOMAIN calls : calls[id].broker = b}
Rank(b, id) == IF id = 0 THEN 0 ELSE Cardinality({j \in CallIds(b) : j <= id})
IdOfRank(b, k) == CHOOSE id \in CallIds(b) : Rank(b, id) = k

\* the two texts of the null-result branch read as one
EraseWording(content) ==
  IF content \in {TimeoutContent(TRUE), TimeoutContent(FALSE)} THEN TimeoutContent(FALSE) ELSE content

\* what a run was given: the process events, and for each call its arguments, the event
\* that settled it, the answers accepted for it and how far it has run
RunInputs(b) ==
  [proc |-> proc[b], startTime |-> startTime[b], timeout |-> env[b].timeout,
   calls |-> [k \in 1..Cardinality(CallIds(b)) |->
                LET c == calls[IdOfRank(b, k)] IN
                  [valid |-> c.valid, deadline |-> c.deadline, pc |-> c.pc, by |-> c.by,
                   result |-> c.result, accepted |-> c.accepted, resolves |-> c.resolves]]]

\* the state of a run and what its calls returned, the wording of the sentinel apart
RunState(b) ==
  [proc |-> proc[b], startTime |-> startTime[b], timeout |-> env[b].timeout,
   ownerWorkspace |-> ownerWorkspace[b], shutdownTimer |-> shutdownTimer[b],
   currentRequest |-> [currentRequest[b] EXCEPT !.id = Rank(b, @)],
   pendingRequests |-> {Rank(b, id) : id \in pendingRequests[b]},
   timers |-> {Rank(b, id) : id \in timers[b]},
   microtasks |-> [i \in 1..Len(microtasks[b]) |-> Rank(b, microtasks[b][i])],
   calls |-> [k \in 1..Cardinality(CallIds(b)) |->
                [calls[IdOfRank(b, k)] EXCEPT !.broker = 0, !.content = EraseWording(@)]]]

Level == RunState(1) = RunState(2)
Turn(b) == IF b = 1 THEN Level ELSE ~Level

RetryFeedbacks == {FbNull, FbText("raw")}

NextRetry ==
  \/ \E b \in PollBrokers : Turn(b) /\ StartBroker(b, RetryEnv(b = 1))
  \/ BindRetry(2)
  \/ \E b \in PollBrokers : Turn(b) /\ Cardinality(CallIds(b)) < RetryCalls /\ InvalidCall(b)
  \/ \E b \in PollBrokers :
       Turn(b) /\ Cardinality(CallIds(b)) < RetryCalls /\ InteractiveFeedback(b, PathAWin, Arg(1))
  \/ \E b \in PollBrokers, id \in DOMAIN calls : Turn(b) /\ TimerFire(b, id)
  \/ \E b \in PollBrokers : Turn(b) /\ Resume(b)
  \/ \E b \in PollBrokers, id \in DOMAIN calls, f \in RetryFeedbacks :
       Turn(b) /\ calls[id].broker = b /\ RawSubmit(b, id, f)
  \/ \E b \in PollBrokers : Turn(b) /\ StdinClose(b)
  \/ \E b \in PollBrokers : Turn(b) /\ ExitFire(b)
  \/ Level /\ Tick

SpecRetry == Init /\ [][NextRetry]_vars

\* Two Brokers, called for the workspace of the window or for another one, and one window
\* that polls them and checks their health; a Broker may be stopped at any time.
HealthDirs == {PathAWin, PathB}

NextHealth ==
  \/ \E b \in PollBrokers : StartBroker(b, PollEnv)
  \/ \E b \in PollBrokers : BindRetry(b)
  \/ \E b \in PollBrokers, d \in HealthDirs : calls = <<>> /\ InteractiveFeedback(b, d, NoArg)
  \/ \E b \in PollBrokers : Signal(b)
  \/ scans[1] = <<>> /\ StartPolling(1)
  \/ \E b \in PollBrokers : CheckPort(1, 1, b)
  \/ ScanFinish(1, 1)
  \/ CheckServer(1)
  \/ HealthProbe(1)
  \/ HealthProbeFails(1)

SpecHealth == InitSeen /\ [][NextHealth]_vars

\* Brokers started minutes apart and left alone: the clock moves by the period of the
\* inactivity check the specification describes, and a tool call is the only event.
IdleCheckMs == 60000
IdleThresholdMs == 120000

NextIdle ==
  \/ \E b \in Brokers : StartBroker(b, PollEnv)
  \/ \E b \in Brokers : BindRetry(b)
  \/ \E b \in Brokers : nextId <= IdleCalls /\ InteractiveFeedback(b, PathAWin, NoArg)
  \/ Advance(IdleCheckMs, IdleTicks)

SpecIdle == Init /\ [][NextIdle]_vars

\* Two Brokers called for the workspace of one window whose scans meet ports that fail:
\* a Broker stopped after the scan began, a GET that times out.
NextScan ==
  \/ \E b \in PollBrokers : StartBroker(b, PollEnv)
  \/ \E b \in PollBrokers : BindRetry(b)
  \/ \E b \in PollBrokers : nextId <= PollCalls /\ InteractiveFeedback(b, PathAWin, NoArg)
  \/ \E b \in PollBrokers : Signal(b)
  \/ scans[1] = <<>> /\ StartPolling(1)
  \/ scans[1] = <<>> /\ IntervalScan(1)
  \/ \E b \in PollBrokers : CheckPort(1, 1, b)
  \/ \E b \in PollBrokers : CheckPortFails(1, 1, b)
  \/ ScanFinish(1, 1)

SpecScan == InitSeen /\ [][NextScan]_vars

\* One Broker and one window of its workspace, with the clock moving around the ten
\* seconds of the freshness test between the call and its discovery.
FreshSteps == {1, 9999}

NextFresh ==
  \/ StartBroker(1, PollEnv)
  \/ nextId <= FreshCalls /\ InteractiveFeedback(1, PathAWin, NoArg)
  \/ scans[1] = <<>> /\ StartPolling(1)
  \/ scans[1] = <<>> /\ IntervalScan(1)
  \/ CheckPort(1, 1, 1)
  \/ ScanFinish(1, 1)
  \/ \E ms \in FreshSteps : Advance(ms, FreshTicks)

SpecFresh == InitSeen /\ [][NextFresh]_vars

\* ------------------------------------------------------------- properties
\* the request id of the last valid interactive_feedback call made to Broker b (0: none)
LatestRequest(b) == Max({id \in DOMAIN calls : calls[id].valid /\ calls[id].broker = b})

\* call id finishes in this step
Finishes(id) == calls'[id].pc = "returned" /\ (id \notin DOMAIN calls \/ calls[id].pc # "returned")

\* C1: a submit with request id X resolves only the pending call X and is answered 200; a
\* submit whose id is not in the pending map (unknown, already answered, timed out) is
\* answered 404 and leaves the request slot, the pending map, the timers and every call
\* as they were. An id that was answered or timed out is no longer in the pending map.
C1_SubmitCorrelation ==
  /\ [](\A id \in DOMAIN calls : calls[id].by # "none" => id \notin pendingRequests[1])
  /\ [][\A id \in {0} \cup DOMAIN calls, f \in RawFeedbacks :
          RawSubmit(1, id, f) =>
            IF id \in pendingRequests[1]
              THEN /\ lastHttp'.status = 200
                   /\ calls'[id].pc = "resolved"
                   /\ calls'[id].result = f
                   /\ \A other \in DOMAIN calls \ {id} : calls'[other] = calls[other]
                   /\ pendingRequests'[1] = pendingRequests[1] \ {id}
              ELSE /\ lastHttp'.status = 404
                   /\ UNCHANGED <<currentRequest, pendingRequests, timers, microtasks, calls>>]_vars

\* C1 witness: a submit for an id that was already answered got 404 while another call is
\* still pending
C1_Witness ==
  /\ lastHttp.status = 404
  /\ lastHttp.requestId \in DOMAIN calls
  /\ calls[lastHttp.requestId].by = "submit"
  /\ \E id \in pendingRequests[1] : calls[id].pc = "waiting" /\ currentRequest[1].id = id

\* C2 as stated: every call is resolved at most once, a call resolved without a submit
\* (by its timer or by stop()) is resolved no earlier than its timeout, and a call whose
\* timer fired never accepts a submit
C2_Original ==
  \A id \in DOMAIN calls :
    LET c == calls[id] IN
      /\ c.resolves <= 1
      /\ c.by \in {"timer", "stop"} => now >= c.deadline /\ c.result = FbNull
      /\ c.by = "timer" => c.accepted = <<>>

\* C2 amended: every call is resolved exactly once (never by two paths); a call resolved
\* by its timer is resolved with null no earlier than its timeout, returns the timeout
\* sentinel, and never accepts a submit afterwards; stop() resolves with null at once,
\* whatever the timeout
C2_ResolvedOnce ==
  \A id \in DOMAIN calls :
    LET c == calls[id] IN
      /\ c.resolves <= 1
      /\ c.valid => (c.resolves = 1 <=> c.pc \in {"resolved", "returned"})
      /\ c.by = "timer" => now >= c.deadline /\ c.result = FbNull /\ c.accepted = <<>>
      /\ c.by = "timer" /\ c.pc = "returned" => c.content = TimeoutContent(env[c.broker].autoRetry)
      /\ c.by = "stop" => c.result = FbNull /\ c.accepted = <<>>
      /\ c.by = "submit" => Len(c.accepted) = 1 /\ c.result = c.accepted[1]

\* C2 witness: a call timed out, returned the sentinel, and a later submit for it got 404
C2_Witness ==
  \E id \in DOMAIN calls :
    /\ calls[id].by = "timer"
    /\ calls[id].pc = "returned"
    /\ lastHttp = [requestId |-> id, status |-> 404]

\* C4: every call that has returned returned at least one content item, and a call with a
\* project_directory that has not returned yet is within its timeout on a process that can
\* still return it
C4_EveryCallReturns ==
  \A id \in DOMAIN calls :
    LET c == calls[id] IN
      /\ c.pc = "returned" => Len(c.content) > 0
      /\ c.pc \in {"waiting", "resolved"} => proc[c.broker] # "exited" /\ now <= c.deadline

C6_LastWins ==
  \A b \in Brokers : CurrentResponse(b).request.id \in {0, LatestRequest(b)}

\* C6 witness: call 2 started while call 1 was pending, and the poll returns request 2
C6_Witness ==
  /\ 2 \in DOMAIN calls
  /\ calls[1].pc = "waiting"
  /\ calls[2].pc = "waiting"
  /\ CurrentResponse(1).request.id = 2

\* the ids of a seen set
SeenIds(p) == {seenRequestIds[p][i] : i \in 1..Len(seenRequestIds[p])}

C7_WorkspaceIsolation ==
  \A p \in Pollers :
    pollerRequest[p].id # 0 =>
      LET target == normalize(pollerRequest[p].projectDir)
          folders == workspaceFolders[p]
      IN IF folders = <<>>
           THEN target \in {<<>>, <<".">>}
           ELSE /\ target \notin {<<>>, <<".">>}
                /\ \E i \in 1..Len(folders) : target = normalize(folders[i])

\* C7 witness: a window with folder /A/ displays the request made for \A\ while a Broker
\* holds a request for another directory
C7_Witness ==
  /\ workspaceFolders[1] = <<<<"/", "A", "/">>>>
  /\ pollerRequest[1].projectDir = PathAWin
  /\ \E b \in Brokers :
       /\ currentRequest[b].id # 0
       /\ normalize(currentRequest[b].projectDir) # normalize(PathAWin)

\* C8: while the request a window displays is pending on its Broker, no step makes an
\* older request that is pending on a Broker the displayed one, and none raises focus or
\* a notification for it
C8_NewestWins ==
  [][\A p \in Pollers :
       LET shown == pollerRequest[p] IN
         (shown.id # 0 /\ \E b \in Brokers : currentRequest[b].id = shown.id) =>
           \A b \in Brokers :
             LET r == currentRequest[b] IN
               (r.id # 0 /\ r.timestamp < shown.timestamp) =>
                 /\ pollerRequest'[p].id # r.id
                 /\ Count(attention'[p], r.id) = Count(attention[p], r.id)]_vars

\* C9: no step displays anew, or raises attention for, a request whose id is in
\* seenRequestIds before the step; a scan whose results hold no request with an unseen
\* id selects nothing (it leaves the displayed request and the active port alone), and a
\* scan whose results hold one selects and displays a request with an unseen id
C9_SeenNeverRedisplayed ==
  [][\A p \in Pollers :
       /\ \A id \in SeenIds(p) :
            /\ Count(displays'[p], id) = Count(displays[p], id)
            /\ Count(attention'[p], id) = Count(attention[p], id)
            /\ pollerRequest'[p].id = id => pollerRequest[p].id = id
       /\ (/\ ScanFinish(p, 1)
           /\ \A r \in scans[p][1].results : r.request.id = 0 \/ r.request.id \in SeenIds(p))
          => /\ pollerRequest'[p] = pollerRequest[p]
             /\ activePort'[p] = activePort[p]
             /\ seenRequestIds'[p] = seenRequestIds[p]
       /\ (/\ ScanFinish(p, 1)
           /\ \E r \in scans[p][1].results : r.request.id # 0 /\ r.request.id \notin SeenIds(p))
          => /\ pollerRequest'[p].id # 0
             /\ pollerRequest'[p].id \notin SeenIds(p)]_vars

\* C9 witness: request 2 was displayed first and request 1 after it; request 2, still
\* pending and seen, went through the second scan and was displayed once only
C9_Witness ==
  /\ seenRequestIds[1] = <<2, 1>>
  /\ \E b \in Brokers : currentRequest[b].id = 2
  /\ Count(displays[1], 2) = 1
  /\ pollerRequest[1].id = 1

C11_PollingIdempotent ==
  /\ [](\A p \in Pollers : intervals[p] = (IF pollingInterval[p] THEN 1 ELSE 0))
  /\ [][\A p \in Pollers :
          /\ (pollingInterval[p] /\ StartPolling(p)) => UNCHANGED vars
          /\ (~pollingInterval[p] /\ StopPolling(p)) => UNCHANGED vars
          /\ (~pollingInterval[p] /\ pollingInterval'[p]) =>
               /\ intervals'[p] = 1
               /\ scans'[p] = Append(scans[p], NewScan)
          /\ Len(scans'[p]) > Len(scans[p]) =>
               /\ Len(scans'[p]) = Len(scans[p]) + 1
               /\ pollingInterval'[p]
               /\ intervals[p] = 1 \/ ~pollingInterval[p]]_vars

\* C11 witness: polling was started and, with two scans in flight, stopped: no interval
\* is live and the field is empty
C11_Witness ==
  /\ ~pollingInterval[1]
  /\ intervals[1] = 0
  /\ Len(scans[1]) = 2

\* C12: a Broker with a pending request stops serving only in a step of a signal, of the
\* closing of stdin, or of the timer of POST /api/shutdown; a step in which time passes
\* ends no Broker and resolves no call
C12_NoInactivityExit ==
  /\ [][\A b \in Brokers :
          (proc[b] = "up" /\ pendingRequests[b] # {} /\ proc'[b] # "up") =>
            /\ now' = now
            /\ Signal(b) \/ StdinClose(b) \/ ShutdownFire(b)]_vars
  /\ [][now' # now => proc' = proc /\ pendingRequests' = pendingRequests /\ calls' = calls]_vars

\* C12 witness: time has passed as far as it goes while a request is pending, and the
\* Broker still serves it
C12_Witness ==
  /\ ticks = MaxTicks
  /\ proc[1] = "up"
  /\ \E id \in pendingRequests[1] : calls[id].pc = "waiting" /\ currentRequest[1].id = id

\* C13: the step in which a Broker stops serving (signal, stdin closed, timer of POST
\* /api/shutdown) resolves every call of the pending map with null, cancels its timer and
\* empties the map; a Broker that has stopped has no pending entry and no armed timer, and
\* a call resolved by stop() is never resolved again
C13_StopResolvesAll ==
  /\ [](\A b \in Brokers :
          proc[b] \in {"closing", "exited"} => pendingRequests[b] = {} /\ timers[b] = {})
  /\ [][\A b \in Brokers :
          (proc[b] = "up" /\ proc'[b] # "up") =>
            \A id \in pendingRequests[b] :
              /\ calls'[id].pc = "resolved"
              /\ calls'[id].by = "stop"
              /\ calls'[id].result = FbNull
              /\ id \notin timers'[b]
              /\ id \notin pendingRequests'[b]]_vars
  /\ [][\A id \in DOMAIN calls :
          calls[id].by = "stop" =>
            /\ calls'[id].by = "stop"
            /\ calls'[id].resolves = 1
            /\ calls'[id].result = FbNull]_vars

\* C13 witness: stdin closed while two calls were pending: both were resolved by stop()
C13_Witness ==
  /\ proc[1] = "closing"
  /\ 2 \in DOMAIN calls
  /\ calls[1].by = "stop"
  /\ calls[2].by = "stop"

\* C14: the request a call creates has as its timeout the value of MCP_FEEDBACK_TIMEOUT
\* if the variable is set (and then never the caller's value in its place), else the
\* caller's timeout if one was supplied, else 300; the timer of the call is due that many
\* seconds after the request was created
C14_TimeoutPrecedence ==
  [][\A a \in TimeoutArgs :
       InteractiveFeedback(1, PathAWin, a) =>
         LET raw == env[1].timeout
             e == parseInt(raw)
             r == currentRequest'[1]
         IN /\ calls'[r.id].deadline = r.timestamp + r.timeout * 1000
            /\ IF raw \notin {Null, <<>>}
                 THEN /\ ~e.nan => r.timeout = e.value
                      /\ (e.nan /\ a.supplied) => r.timeout # a.value
                 ELSE r.timeout = (IF a.supplied THEN a.value ELSE DefaultTimeout)]_vars

C16_OwnerWorkspace ==
  /\ [](\A b \in Brokers :
          ownerWorkspace[b] = Null <=> ~\E id \in DOMAIN calls : calls[id].valid /\ calls[id].broker = b)
  /\ [][\A b \in Brokers :
          IF nextId' # nextId /\ calls'[nextId].valid /\ calls'[nextId].broker = b
            THEN LET owner == ownerWorkspace'[b] IN
                   /\ owner = normalize(currentRequest'[b].projectDir)
                   /\ owner # Null
                   /\ \A i \in 1..Len(owner) : owner[i] # "\\" /\ owner[i] \notin DOMAIN Upper
                   /\ Len(owner) > 0 => owner[Len(owner)] # "/"
            ELSE ownerWorkspace'[b] = ownerWorkspace[b]]_vars

\* C16 witness: after a call for \A\ was answered and one for /b timed out and was cleaned
\* up, the owner is /b
C16_Witness ==
  /\ 2 \in DOMAIN calls
  /\ calls[1].by = "submit"
  /\ calls[2].by = "timer"
  /\ calls[2].pc = "returned"
  /\ currentRequest[1] = NoRequest
  /\ ownerWorkspace[1] = <<"/", "b">>

\* C17: Brokers that listen hold pairwise distinct ports; a step of a Broker that is
\* starting (first listen, retry or fatal error) leaves every other Broker running on its
\* port with no shutdown armed and its pending calls untouched; the step tries the base
\* port first and the candidate plus one on a retry, ends listening exactly when no other
\* Broker listens on the candidate, and on any other bind error the process exits
C17_PortCoexistence ==
  /\ [](\A b, c \in Brokers : (b # c /\ proc[b] = "up" /\ proc[c] = "up") => port[b] # port[c])
  /\ [][\A b \in Brokers :
          (proc[b] \in {"down", "binding"} /\ (proc'[b] # proc[b] \/ port'[b] # port[b])) =>
            /\ \A c \in Brokers \ {b} :
                 /\ proc'[c] = proc[c]
                 /\ port'[c] = port[c]
                 /\ shutdownTimer'[c] = shutdownTimer[c]
                 /\ pendingRequests'[c] = pendingRequests[c]
                 /\ timers'[c] = timers[c]
            /\ calls' = calls
            /\ proc'[b] \in {"up", "binding", "exited"}
            /\ proc'[b] = "exited" => port'[b] = port[b]
            /\ proc'[b] \in {"up", "binding"} =>
                 /\ port'[b] = IF proc[b] = "down" THEN BasePort ELSE port[b] + 1
                 /\ proc'[b] = "up" <=>
                      ~\E c \in Brokers \ {b} : proc[c] = "up" /\ port[c] = port'[b]]_vars

\* C17 witness: three Brokers listen, the last one started two ports above the base port,
\* while the first still has its call pending
C17_Witness ==
  /\ \A b \in Brokers : proc[b] = "up"
  /\ port[3] = BasePort
  /\ port[2] = BasePort + 1
  /\ port[1] = BasePort + 2
  /\ pendingRequests[3] # {}

\* C18: a POST /api/feedback/submit whose body does not parse as a JSON object is
\* answered 400 and leaves the request slot, the pending map, the timers and every call
\* untouched
C18_MalformedBody ==
  [][\A body \in SubmitBodies :
       (BodySubmit(1, body) /\ (JSONparse(body).threw \/ JSONparse(body).kind # "object")) =>
         /\ lastHttp'.status = 400
         /\ UNCHANGED <<currentRequest, pendingRequests, timers, microtasks, calls>>]_vars

\* C19: a returned call carries the timeout / cancel sentinel only if its promise was
\* settled by the timer or by stop(); a call settled by a submit that was answered 200 never
\* returns the sentinel, and when that answer has no text, no images and no attached paths
\* the call returns the one item 'User did not provide any feedback.'
C19_TimeoutDistinguishable ==
  \A id \in DOMAIN calls :
    (calls[id].valid /\ calls[id].pc = "returned") =>
      LET c == calls[id]
          sentinel == TimeoutContent(env[c.broker].autoRetry)
      IN /\ c.content = sentinel => c.by \in {"timer", "stop"}
         /\ c.by = "submit" =>
              /\ c.content # sentinel
              /\ (/\ ~c.result.isNull
                  /\ ~c.result.malformed
                  /\ c.result.interactive_feedback = ""
                  /\ c.result.images = <<>>
                  /\ c.result.attachedFiles = <<>>) =>
                   c.content = <<TextItem(<<"User did not provide any feedback.">>)>>

\* C20: when the submit of a window ends without a success answer (the connection failed
\* or the Broker answered an error), the form still holds the request id that was being
\* answered, so the same answer can be sent again
C20_FormKeptOnFailure ==
  [][\A p \in Pollers :
       (/\ submit[p].stage \in {"answered", "failed"}
        /\ ~(submit[p].stage = "answered" /\ submit[p].status = 200)
        /\ submit'[p].stage = "idle") =>
         formRequestId'[p] = submit[p].requestId]_vars

\* C21: when the Broker answers the submit of a window with 404, the window clears its
\* displayed request and shows the waiting state
C21_NotFoundClearsDisplay ==
  [][\A p \in Pollers :
       (/\ submit[p].stage = "answered"
        /\ submit[p].status = 404
        /\ submit'[p].stage = "idle") =>
         /\ pollerRequest'[p] = NoRequest
         /\ formRequestId'[p] = 0]_vars

\* C22: when a scan of a window ends with no new winning request and none of its results
\* holds the displayed request any more, the window clears the displayed request
C22_StaleDisplayCleared ==
  [][\A p \in Pollers :
       (/\ scans[p] # <<>>
        /\ ScanFinish(p, 1)
        /\ pollerRequest[p].id # 0
        /\ ValidRequests(scans[p][1].results, seenRequestIds[p]) = {}
        /\ \A r \in scans[p][1].results : r.request.id # pollerRequest[p].id) =>
         pollerRequest'[p] = NoRequest]_vars

\* C23: while the last call made to a Broker is still waiting for its answer, a poll of
\* that Broker returns its request: an earlier call finishing does not empty the slot
C23_LaterCallStaysVisible ==
  \A b \in Brokers :
    LET id == LatestRequest(b) IN
      (id # 0 /\ calls[id].pc = "waiting" /\ Idle(b)) => CurrentResponse(b).request.id = id

\* C24: whenever a window displays a request, activePort is the port of the Broker that
\* holds it, and the POST of an answer goes to the port of the Broker that created the
\* request being answered
C24_SubmitToOrigin ==
  \A p \in Pollers :
    /\ pollerRequest[p].id # 0 => activePort[p] = PortOf(calls[pollerRequest[p].id].broker)
    /\ submit[p].stage = "sent" => submit[p].port = PortOf(calls[submit[p].requestId].broker)

\* C25: a scan whose results hold requests with an unseen id selects one of them that no
\* other exceeds in timestamp, nor, at equal timestamp, in the startTime of its Broker;
\* the id selected is marked seen, its request becomes the displayed one and activePort
\* becomes the port it came from
C25_ScanSelection ==
  [][\A p \in Pollers :
       (scans[p] # <<>> /\ ScanFinish(p, 1)) =>
         LET candidates == {r \in scans[p][1].results :
                              r.request.id # 0 /\ r.request.id \notin SeenIds(p)}
         IN candidates # {} =>
              \E w \in candidates :
                /\ \A q \in candidates :
                     \/ w.request.timestamp > q.request.timestamp
                     \/ /\ w.request.timestamp = q.request.timestamp
                        /\ w.startTime >= q.startTime
                /\ w.request.id \in SeenIds(p)'
                /\ pollerRequest'[p] = w.request
                /\ activePort'[p] = w.port]_vars

\* C25 witness: two Brokers hold requests of the same timestamp for the window's
\* workspace, and the window displays the one of the Broker started later, which listens
\* on the higher port, as the first request it has seen
C25_Witness ==
  /\ currentRequest[1].id # 0
  /\ currentRequest[2].id # 0
  /\ currentRequest[1].timestamp = currentRequest[2].timestamp
  /\ isPathInWorkspace(1, currentRequest[1].projectDir)
  /\ isPathInWorkspace(1, currentRequest[2].projectDir)
  /\ startTime[2] > startTime[1]
  /\ port[2] > port[1]
  /\ pollerRequest[1] = currentRequest[2]
  /\ activePort[1] = port[2]
  /\ seenRequestIds[1] = <<currentRequest[2].id>>

\* C26: a request a scan makes the displayed one comes from a Broker whose ownerWorkspace
\* is unset or equals the normalized workspace path of the window
C26_OwnedBrokersOnly ==
  [][\A p \in Pollers :
       (scans[p] # <<>> /\ ScanFinish(p, 1) /\ pollerRequest'[p] # pollerRequest[p]) =>
         \E r \in scans[p][1].results :
           /\ r.request = pollerRequest'[p]
           /\ \/ r.ownerWorkspace \in {Null, <<>>}
              \/ r.ownerWorkspace =
                   normalize(IF workspaceFolders[p] = <<>> THEN <<>> ELSE workspaceFolders[p][1])]_vars

\* C27: whenever a Broker can serve an HTTP request, the request in its slot is in the
\* pending map (a poll never returns a resolved request), and the slot holds a request
\* exactly when a call is waiting (hasCurrentRequest of /api/health)
C27_SlotAgreesWithPending ==
  \A b \in Brokers :
    Idle(b) =>
      /\ currentRequest[b].id # 0 => currentRequest[b].id \in pendingRequests[b]
      /\ currentRequest[b].id # 0 <=> pendingRequests[b] # {}

\* C28: a request that is pending on a Broker, for a directory of the workspace of a window
\* that polls, is eventually displayed in that window, whatever port the Broker ended up on
C28_EventuallyDisplayed ==
  \A id \in 1..RangeCalls, b \in Brokers :
    (/\ id \in pendingRequests[b]
     /\ currentRequest[b].id = id
     /\ isPathInWorkspace(1, currentRequest[b].projectDir)
     /\ pollingInterval[1])
      ~> (Count(displays[1], id) > 0)

\* C29: with scans of a window overlapping in any order, a request id is displayed as new
\* at most once and raises focus and a notification at most once, and no step displays a
\* request again that a submit has answered
C29_OverlappingScans ==
  /\ [](\A p \in Pollers, id \in DOMAIN calls :
          /\ Count(displays[p], id) <= 1
          /\ Count(attention[p], id) <= 1)
  /\ [][\A p \in Pollers, id \in DOMAIN calls :
          calls[id].by = "submit" =>
            /\ pollerRequest'[p].id = id => pollerRequest[p].id = id
            /\ Count(displays'[p], id) = Count(displays[p], id)]_vars

\* C29 witness: request 1 was displayed once and answered with success, the display is
\* back to waiting, and a scan that collected request 1 before the answer is about to end
C29_Witness ==
  /\ calls # <<>>
  /\ calls[1].by = "submit"
  /\ pollerRequest[1] = NoRequest
  /\ submit[1] = NoSubmit
  /\ Count(displays[1], 1) = 1
  /\ Len(scans[1]) = 1
  /\ scans[1][1].waiting = {}
  /\ \E r \in scans[1][1].results : r.request.id = 1

\* C30: a step that displays a request as new raises focus and a notification for it
\* exactly when less than 10 seconds have passed since the request was created, and no
\* step raises them without displaying the request as new
C30_AttentionIffFresh ==
  [][\A p \in Pollers, id \in DOMAIN calls :
       IF Count(displays'[p], id) # Count(displays[p], id)
         THEN /\ pollerRequest'[p].id = id
              /\ IF now - pollerRequest'[p].timestamp < 10000
                   THEN Count(attention'[p], id) = Count(attention[p], id) + 1
                   ELSE Count(attention'[p], id) = Count(attention[p], id)
         ELSE Count(attention'[p], id) = Count(attention[p], id)]_vars

\* C30 witness: the request created at 0 was discovered at 10000 and is displayed without
\* focus or notification
C30_Witness ==
  /\ now = 10000
  /\ pollerRequest[1].id = 1
  /\ pollerRequest[1].timestamp = 0
  /\ Count(displays[1], 1) = 1
  /\ Count(attention[1], 1) = 0

\* C31: when a scan of a window ends, latestServerStartTime becomes the greatest startTime
\* among the Brokers that answered and whose ownerWorkspace is unset (null or empty) or
\* equals the normalized first workspace folder of the window, and 0 when there is none
C31_LatestStartTime ==
  [][\A p \in Pollers :
       (scans[p] # <<>> /\ ScanFinish(p, 1)) =>
         LET workspace == normalize(IF workspaceFolders[p] = <<>> THEN <<>> ELSE workspaceFolders[p][1])
             mine == {r \in scans[p][1].results :
                        r.connected /\ r.ownerWorkspace \in {Null, <<>>, workspace}}
             latest == latestServerStartTime'[p]
         IN /\ \A r \in mine : r.startTime <= latest
            /\ latest = 0 \/ \E r \in mine : r.startTime = latest]_vars

\* C31 witness: after a scan the window knows start time 1000 of a Broker that has had no
\* call yet, while a Broker owned by another workspace is up
C31_Witness ==
  /\ scans[1] = <<>>
  /\ latestServerStartTime[1] = 1000
  /\ \E b \in Brokers : proc[b] = "up" /\ startTime[b] = 1000 /\ ownerWorkspace[b] = Null
  /\ \E b \in Brokers :
       /\ proc[b] = "up"
       /\ ownerWorkspace[b] \notin {Null, <<>>}
       /\ workspaceFolders[1] # <<>>
       /\ ownerWorkspace[b] # normalize(workspaceFolders[1][1])

\* C32: whenever the slot of a Broker holds a request, ownerWorkspace is the normalized
\* projectDir of that request, so the two members of a poll answer agree
C32_OwnerMatchesRequest ==
  \A b \in Brokers :
    LET answer == CurrentResponse(b) IN
      answer.request.id # 0 => answer.ownerWorkspace = normalize(answer.request.projectDir)

\* C32 witness: call 2, for \A\, arrived while call 1, for /b, was pending; the poll
\* returns request 2 with owner /a
C32_Witness ==
  /\ 2 \in DOMAIN calls
  /\ calls[1].pc = "waiting"
  /\ calls[2].pc = "waiting"
  /\ CurrentResponse(1).request.id = 2
  /\ CurrentResponse(1).request.projectDir = PathAWin
  /\ CurrentResponse(1).ownerWorkspace = <<"/", "a">>
  /\ \E k \in 1..Len(scans[1]) : \E r \in scans[1][k].results : r.ownerWorkspace = <<"/", "b">>

\* the URLs a caller may ask for: those of the windows, one of a window of another
\* workspace that knows a later start time, and one without query parameters
GetUrls ==
  {CurrentUrl(p) : p \in Pollers}
    \cup {PlainUrl, [PlainUrl EXCEPT !.hasQuery = TRUE, !.workspace = PathB, !.latestStartTime = 1000]}

\* C33: the answer of GET /api/feedback/current is the slot, ownerWorkspace and startTime of
\* the Broker whatever the query parameters are, and a step in which a GET of a scan is
\* answered changes nothing of the Broker
C33_GetCurrentIsPure ==
  /\ [](\A b \in Brokers, url \in GetUrls :
          GetCurrent(b, url) =
            [request |-> currentRequest[b], ownerWorkspace |-> ownerWorkspace[b],
             startTime |-> startTime[b]])
  /\ [][\A p \in Pollers, b \in Brokers :
          (scans[p] # <<>> /\ CheckPort(p, 1, b)) =>
            UNCHANGED <<proc, currentRequest, pendingRequests, ownerWorkspace, timers,
                        microtasks, calls>>]_vars

\* C33 witness: a scan of the window on /A holds the answer of a Broker owned by /b, with
\* its owner, while that Broker still holds its request
C33_Witness ==
  /\ scans[1] # <<>>
  /\ currentRequest[1].projectDir = PathB
  /\ \E r \in scans[1][1].results :
       r.connected /\ r.mismatch /\ r.ownerWorkspace = <<"/", "b">>

\* C34: when the POST of an answer fails at the network level (no listener, or the 5 s
\* timeout), the step that handles the failure leaves the displayed request, activePort
\* and seenRequestIds of the window as they were
C34_NetworkFailureFrame ==
  [][\A p \in Pollers :
       (submit[p].stage = "failed" /\ submit'[p].stage = "idle") =>
         /\ pollerRequest'[p] = pollerRequest[p]
         /\ activePort'[p] = activePort[p]
         /\ seenRequestIds'[p] = seenRequestIds[p]]_vars

\* C34 witness: the Broker was stopped with request 1 unanswered, the answer of the window
\* failed and was handled, and request 1 is still displayed
C34_Witness ==
  /\ proc[1] = "exited"
  /\ calls # <<>>
  /\ calls[1].by = "stop"
  /\ submit[1] = NoSubmit
  /\ formRequestId[1] = 0
  /\ pollerRequest[1].id = 1
  /\ activePort[1] = BasePort
  /\ seenRequestIds[1] = <<1>>

Connected(results) == {r \in results : r.connected}

\* C35: a port whose GET fails during a scan counts as a port without Broker: the failure
\* keeps the scan and the results it has gathered and changes nothing in the window, and
\* the scan ends as the results of the ports that answered alone decide
C35_FailedPortIsNoBroker ==
  [][\A p \in Pollers :
       /\ \A b \in Brokers :
            ((CheckPort(p, 1, b) /\ proc[b] # "up") \/ CheckPortFails(p, 1, b)) =>
              /\ Len(scans'[p]) = Len(scans[p])
              /\ scans'[p][1].waiting = scans[p][1].waiting \ {b}
              /\ Connected(scans'[p][1].results) = Connected(scans[p][1].results)
              /\ UNCHANGED <<pollerRequest, activePort, seenRequestIds, latestServerStartTime,
                             formRequestId, attention, displays, health, pollingInterval, intervals>>
       /\ ScanFinish(p, 1) =>
            LET st == AfterScan(PollerState(p), Connected(scans[p][1].results), now) IN
              /\ pollerRequest'[p] = st.request
              /\ activePort'[p] = st.activePort
              /\ seenRequestIds'[p] = st.seen
              /\ latestServerStartTime'[p] = MaxStartTime(p, Connected(scans[p][1].results))
              /\ Len(scans'[p]) = Len(scans[p]) - 1]_vars

\* C35 witness: the port of Broker 1 failed in a scan, the request of Broker 2 was found
\* by the same scan, and the window displays it
C35_Witness ==
  /\ scans[1] # <<>>
  /\ scans[1][1].waiting = {}
  /\ \E r \in scans[1][1].results : ~r.connected /\ r.port = PortOf(1)
  /\ \E r \in scans[1][1].results : r.connected /\ r.port = PortOf(2) /\ r.request.id # 0
  /\ PortOf(1) # PortOf(2)

NeverCalled(b) == \A id \in DOMAIN calls : calls[id].broker # b

\* C36: a Broker that nothing has reached since it began to listen, and that has no
\* pending request, does not outlive the inactivity threshold by more than one period of
\* the inactivity check
C36_IdleBrokerTerminates ==
  \A b \in Brokers :
    (proc[b] = "up" /\ pendingRequests[b] = {} /\ NeverCalled(b)) =>
      now - startTime[b] <= IdleThresholdMs + IdleCheckMs

\* the extension of a file name as the claim reads it: what follows the last dot, in lower
\* case; a name without a dot has none
NamedExtension(filename) ==
  LET l == ToLowerCase(filename)
      d == LastDot(l, Len(l))
  IN IF d = 0 THEN <<>> ELSE SubSeq(l, d + 1, Len(l))

MimeOfExtension(ext) ==
  IF ext \in {<<"j", "p", "g">>, <<"j", "p", "e", "g">>} THEN "image/jpeg"
  ELSE IF ext = <<"g", "i", "f">> THEN "image/gif"
  ELSE IF ext = <<"w", "e", "b", "p">> THEN "image/webp"
  ELSE "image/png"

\* the content the claim describes for an accepted answer r
ClaimedContent(r, named(_)) ==
  /\ Len(r.content) >= 1
  /\ LET texts == IF r.content[1].type = "text" THEN 1 ELSE 0 IN
       /\ Len(r.content) = texts + Len(r.result.images)
       /\ texts = 1 =>
            \/ r.content[1].text = FeedbackText(r.result) /\ r.content[1].text # <<>>
            \/ /\ r.result.interactive_feedback = "" /\ r.result.attachedFiles = <<>>
               /\ r.result.images = <<>>
       /\ \A i \in 1..Len(r.result.images) :
            LET item == r.content[texts + i] IN
              /\ item.type = "image"
              /\ item.data = r.result.images[i]
              /\ named(r.result.images[i]) => item.mimeType = MimeOfExtension(NamedExtension(item.data))

AcceptedAnswers == {id \in DOMAIN calls : calls[id].pc = "returned" /\ calls[id].by = "submit"}

HasDot(filename) == \E i \in 1..Len(filename) : filename[i] = "."
AnyName(filename) == TRUE

\* C37: the content returned for an accepted answer is at most one text item, then one
\* image item per image in the order submitted, each with the MIME type of the extension
\* of its name (jpg, jpeg, png, gif, webp in any case; image/png for any other extension
\* and for a name without extension)
C37_ContentItems ==
  \A id \in AcceptedAnswers : ClaimedContent(calls[id], AnyName)

\* C37, for the names that contain a dot: the same content, and the MIME type follows the
\* extension
C37_DottedNames ==
  \A id \in AcceptedAnswers : ClaimedContent(calls[id], HasDot)

\* C37 witness: an answer with text, a file and two images, one of them named gif without
\* a dot, has been returned
C37_Witness ==
  \E id \in AcceptedAnswers :
    /\ Len(calls[id].result.images) = 2
    /\ calls[id].result.images[2] = <<"g", "i", "f">>
    /\ calls[id].result.attachedFiles # <<>>
    /\ calls[id].content[3].mimeType = "image/gif"

\* C38: two runs of the Broker that differ only in MCP_AUTO_RETRY and were given the same
\* calls, requests, signals and timer events are in the same state and have returned the
\* same content for every call, the wording of the timeout sentinel apart
C38_RetryHintOnlyWording ==
  RunInputs(1) = RunInputs(2) => RunState(1) = RunState(2)

\* C38 witness: both runs let their first call time out and returned the sentinel, each in
\* its own wording, and they are level
C38_Witness ==
  /\ Level
  /\ CallIds(1) # {} /\ CallIds(2) # {}
  /\ LET c1 == calls[IdOfRank(1, 1)]
         c2 == calls[IdOfRank(2, 1)]
     IN /\ c1.by = "timer" /\ c1.pc = "returned" /\ c1.content = TimeoutContent(TRUE)
        /\ c2.by = "timer" /\ c2.pc = "returned" /\ c2.content = TimeoutContent(FALSE)

\* C39: the health check probes the ports of the range in order, and the probe that finds
\* a serving Broker on its port ends the check and reports connected with that port,
\* whatever workspace owns the Broker; no step of the health check changes the displayed
\* request, the active port, the seen ids or the latest start time of the window
C39_HealthCheck ==
  [][\A p \in Pollers :
       /\ (HealthProbe(p) /\ \E b \in Brokers : proc[b] = "up" /\ PortOf(b) = BasePort + health[p].probing - 1) =>
            /\ health'[p].posted /\ health'[p].connected /\ health'[p].probing = 0
            /\ health'[p].port = BasePort + health[p].probing - 1
       /\ health'[p] # health[p] =>
            /\ (health[p].probing > 0 /\ health'[p].probing = 0 /\ health'[p].connected) =>
                 health'[p].port = BasePort + health[p].probing - 1
            /\ UNCHANGED <<pollerRequest, activePort, seenRequestIds, latestServerStartTime,
                           formRequestId, scans>>]_vars

\* C39 witness: the window displays nothing, the Broker on the first port is owned by
\* another workspace and holds a request of it, and the health check has reported the
\* window connected through that port
C39_Witness ==
  /\ health[1].posted /\ health[1].connected /\ health[1].port = BasePort
  /\ \E b \in Brokers :
       /\ proc[b] = "up" /\ PortOf(b) = BasePort
       /\ ownerWorkspace[b] = normalize(PathB)
       /\ currentRequest[b].id # 0
  /\ pollerRequest[1] = NoRequest
  /\ activePort[1] = 0
  /\ scans[1] = <<>> /\ pollingInterval[1]

====
